---- MODULE Spec2Model ----
(***************************************************************************)
(* Model of the resumable batched sync session of chroma-sync:             *)
(*   - SyncStateManager (src/src/sync-state.ts): the session state         *)
(*     machine, its durable record and its cancellation token;             *)
(*   - ChromaRunner (src/unnamed/part_003): the orchestrator that drives   *)
(*     the state machine batch by batch through an external executor.      *)
(*                                                                         *)
(* Spec       drives the SyncStateManager through its public methods, the  *)
(*            way tests/sync-state.test.ts does.                           *)
(* SpecRunner drives it through ChromaRunner: executeSync, pauseSync,      *)
(*            resumeSync and stopSync interleaved at the await points of   *)
(*            the batch loop, for every result of the external executor.   *)
(* SpecFair and SpecRunnerFair add the fairness of timers and of the       *)
(*            executor for the liveness properties.                        *)
(* SpecDisk   is Spec on a session file that can be damaged between two    *)
(*            lives of the plugin.                                         *)
(* SpecVerify is ChromaRunner.verifySync for every output of the           *)
(*            verification backend.                                        *)
(* SpecDelta  is the DeltaEngine (src/src/delta.ts) on a vault that is     *)
(*            edited between two syncs, for every choice of failing reads. *)
(* SpecRetry  is the partial-sync bookkeeping of the DeltaEngine.          *)
(* SpecChunk  is DocumentChunker.chunkDocument (src/unnamed/part_002) for  *)
(*            every document and configuration of the bounds.              *)
(***************************************************************************)
EXTENDS Integers, Sequences, FiniteSets, TLC

\* ------------------------------------------------------------ bounds
MaxActions == 3     \* longest action list handed to initializeSession
MaxBatch == 2       \* largest batchSize
MaxClock == 2       \* Date.now() ranges over 1..MaxClock
MaxTokens == 2      \* AbortControllers created (initialize + resume calls)
MaxErrors == 1      \* longest errors list
MaxTimers == 2      \* pending grace-period timers
MaxRuns == 2        \* executeSync / resumeSync calls that reach the batch loop
MaxPaths == 2       \* document paths the verification backend can report
MaxProgress == 2    \* largest count in a progress line of the backend

VARIABLES
    currentSession,   \* SyncStateManager.currentSession (NoSession = null)
    abortController,  \* SyncStateManager.abortController: token id, 0 = null
    aborted,          \* the AbortSignals that have been signaled (token ids)
    disk,             \* content of sync_session.json:
                      \*   kind "absent"   no file
                      \*        "json"     a record as saveSession writes it
                      \*        "text"     content that JSON.parse rejects
                      \*        "damaged"  a record with one fault
    timers,           \* pending setTimeout(clearSession, 500) callbacks
    nextId,           \* session ids generated so far
    nextTok,          \* AbortControllers constructed so far
    clock,            \* Date.now()
    batch,            \* the caller's result of its last getNextBatch()
    runs,             \* the executeSync / resumeSync calls of the ChromaRunner
    verify,           \* the verifySync call of the ChromaRunner
    delta,            \* the DeltaEngine: its vault, its globs, the persisted
                      \*   FileState and the result of its last call
    chunker           \* the DocumentChunker call: its document and its chunks

vars == <<currentSession, abortController, aborted, disk, timers, nextId,
          nextTok, clock, batch, runs, verify, delta, chunker>>

\* ------------------------------------------------------------ values
\* null for currentSession
NoSession == [state |-> "none"]
\* sync_session.json does not exist
NoFile == [kind |-> "absent"]
\* an optional field (pauseTime?, resumeTime?) that is undefined / set
Undefined == <<>>
Some(x) == <<x>>

Min(a, b) == IF a < b THEN a ELSE b
Max(a, b) == IF a > b THEN a ELSE b
Range(s) == {s[i] : i \in 1..Len(s)}

\* Array.prototype.slice(start) and slice(0, end) for end >= 0
SliceFrom(s, n) == SubSeq(s, Min(n, Len(s)) + 1, Len(s))
SliceTo(s, n) == SubSeq(s, 1, Min(n, Len(s)))

\* A DeltaAction is modelled by its id; a plan is a list of actions.  The ids
\* of a plan are derived from paths, so they are normally distinct; one plan
\* with a repeated id is kept as well.
Plans == {[i \in 1..n |-> i] : n \in 0..MaxActions} \cup {<<1, 1>>}
BatchSizes == 1..MaxBatch

\* ------------------------------------------------------------ Set<string>
\* A JS Set iterates in insertion order: a duplicate-free sequence.
SetAdd(s, x) == IF x \in Range(s) THEN s ELSE Append(s, x)

RECURSIVE SetAddAll(_, _)
SetAddAll(s, xs) ==
    IF xs = <<>> THEN s ELSE SetAddAll(SetAdd(s, Head(xs)), Tail(xs))

\* Array.from(set): the members in insertion order
ArrayFrom(s) == s
\* new Set(array): duplicates dropped, first occurrence kept
NewSet(arr) == SetAddAll(<<>>, arr)

\* ------------------------------------------------------------ manager state
\* The SyncStateManager together with the file system and the timer queue it
\* acts on, as one value, so that several calls compose within one handler.
Mgr == [cur |-> currentSession, ac |-> abortController, aborted |-> aborted,
        disk |-> disk, timers |-> timers, nextId |-> nextId, nextTok |-> nextTok]

SetMgr(m) ==
    /\ currentSession' = m.cur
    /\ abortController' = m.ac
    /\ aborted' = m.aborted
    /\ disk' = m.disk
    /\ timers' = m.timers
    /\ nextId' = m.nextId
    /\ nextTok' = m.nextTok

HasSession(m) == m.cur.state # "none"

\* saveSession: the session with processedIds as an array, written to the file
SaveSession(m) ==
    IF ~HasSession(m) THEN m
    ELSE [m EXCEPT !.disk = [kind |-> "json",
                             data |-> [m.cur EXCEPT !.processedIds = ArrayFrom(@)]]]

\* clearSessionFile
ClearSessionFile(m) == [m EXCEPT !.disk = NoFile]

\* a variant that forgets the session but leaves its file
ClearSession_KeepsFile(m) == [m EXCEPT !.cur = NoSession, !.ac = 0]

\* clearSession
ClearSession(m) ==
    ClearSessionFile([m EXCEPT !.cur = NoSession, !.ac = 0])

\* The faults of a damaged record:
\*   "field"      a field that isValidSession tests is absent or mistyped
\*   "idsNumber"  processedIds is a number (not iterable)
\*   "idsString"  processedIds is a string (iterable: its characters)
\*   "idsAbsent"  processedIds is absent or null
Faults == {"field", "idsNumber", "idsString", "idsAbsent"}
\* a damaged file; the fields of a record that loadSession rejects are never
\* read, so they are not kept
Damaged(f, data) ==
    IF f \in {"field", "idsNumber"}
    THEN [kind |-> "damaged", fault |-> f]
    ELSE [kind |-> "damaged", fault |-> f, data |-> data]
\* the characters of the string, none of them the id of an action
StringChars == <<0>>

\* isValidSession on the parsed content: the fields it tests are present and
\* of the right type; processedIds is not among them
IsValidSession(file) ==
    \/ file.kind = "json"
    \/ file.kind = "damaged" /\ file.fault # "field"

\* sessionData.processedIds || [] as handed to new Set(...)
ParsedIds(file) ==
    IF file.kind = "json" THEN file.data.processedIds
    ELSE IF file.fault = "idsString" THEN StringChars
    ELSE <<>>

\* loadSession: the pair of the session read (NoSession = null) and the manager
\* state afterwards.  JSON.parse throws on text and new Set throws on a value
\* that is not iterable: both are caught, the file is removed and null is
\* returned, as for a record that isValidSession rejects
LoadSession(m) ==
    IF m.disk.kind = "absent" THEN [session |-> NoSession, m |-> m]
    ELSE IF m.disk.kind = "text"
         THEN [session |-> NoSession, m |-> ClearSessionFile(m)]
    ELSE IF ~IsValidSession(m.disk)
         THEN [session |-> NoSession, m |-> ClearSessionFile(m)]
    ELSE IF m.disk.kind = "damaged" /\ m.disk.fault = "idsNumber"
         THEN [session |-> NoSession, m |-> ClearSessionFile(m)]
    ELSE [session |-> [m.disk.data EXCEPT !.processedIds = NewSet(ParsedIds(m.disk))],
          m |-> m]

\* generateSessionId: sync_<timestamp>_<random>, modelled as a value never
\* generated before
GenerateSessionId(m) == m.nextId + 1

\* a variant that resumes a paused record whatever is left in its queue
ShouldResume_IgnoresQueue(existing) ==
    existing.state # "none" /\ existing.state = "paused"

\* the test of initializeSession for resuming the session that was loaded
ShouldResume(existing) ==
    /\ existing.state # "none"
    /\ existing.state = "paused"
    /\ Len(existing.remainingActions) > 0

\* initializeSession(actions, batchSize) at time now
InitializeSession(m, actions, batchSize, now) ==
    LET loaded == LoadSession(m)
        existing == loaded.session
        m1 == loaded.m
        resumed == [existing EXCEPT !.state = "running",
                                    !.resumeTime = Some(now),
                                    !.batchSize = batchSize]
        fresh == [id |-> GenerateSessionId(m1),
                  state |-> "running",
                  startTime |-> now,
                  pauseTime |-> Undefined,
                  resumeTime |-> Undefined,
                  totalActions |-> Len(actions),
                  processedActions |-> 0,
                  remainingActions |-> actions,
                  processedIds |-> <<>>,
                  errors |-> <<>>,
                  lastCheckpointTime |-> now,
                  batchSize |-> batchSize]
        m2 == IF ShouldResume(existing)
              THEN [m1 EXCEPT !.cur = resumed]
              ELSE [m1 EXCEPT !.cur = fresh, !.nextId = GenerateSessionId(m1)]
    IN SaveSession([m2 EXCEPT !.ac = m1.nextTok + 1, !.nextTok = m1.nextTok + 1])

\* a variant whose hasMore is off by one
GetNextBatch_HasMoreAtEqual(m) ==
    IF ~HasSession(m) \/ m.cur.state # "running"
    THEN [actions |-> <<>>, hasMore |-> FALSE, m |-> m]
    ELSE [actions |-> SliceTo(m.cur.remainingActions, m.cur.batchSize),
          hasMore |-> Len(m.cur.remainingActions) >= m.cur.batchSize,
          m |-> m]

\* getNextBatch: the batch, the hasMore flag and the manager state afterwards
\* (slice copies, the queue is left as it is)
GetNextBatch(m) ==
    IF ~HasSession(m) \/ m.cur.state # "running"
    THEN [actions |-> <<>>, hasMore |-> FALSE, m |-> m]
    ELSE [actions |-> SliceTo(m.cur.remainingActions, m.cur.batchSize),
          hasMore |-> Len(m.cur.remainingActions) > m.cur.batchSize,
          m |-> m]

\* a variant that drops a whole batch from the queue, whatever was completed
CompleteBatch_DropsBatch(m, completedActions, now) ==
    IF ~HasSession(m) THEN m
    ELSE SaveSession([m EXCEPT
            !.cur.remainingActions = SliceFrom(@, m.cur.batchSize),
            !.cur.processedActions = @ + Len(completedActions),
            !.cur.processedIds = SetAddAll(@, completedActions),
            !.cur.lastCheckpointTime = now])

\* completeBatch(completedActions) at time now
CompleteBatch(m, completedActions, now) ==
    IF ~HasSession(m) THEN m
    ELSE SaveSession([m EXCEPT
            !.cur.remainingActions = SliceFrom(@, Len(completedActions)),
            !.cur.processedActions = @ + Len(completedActions),
            !.cur.processedIds = SetAddAll(@, completedActions),
            !.cur.lastCheckpointTime = now])

\* a variant that records the error in memory only
AddError_NotSaved(m, error) ==
    IF ~HasSession(m) THEN m
    ELSE [m EXCEPT !.cur.errors = Append(@, error)]

\* addError(error)
AddError(m, error) ==
    IF ~HasSession(m) THEN m
    ELSE SaveSession([m EXCEPT !.cur.errors = Append(@, error)])

\* AbortController.abort() on the current controller, if any
Abort(m) == IF m.ac # 0 THEN [m EXCEPT !.aborted = @ \cup {m.ac}] ELSE m

\* a variant that pauses whatever the state of the session
PauseSession_AnyState(m, now) ==
    IF ~HasSession(m)
    THEN [m |-> m, ret |-> FALSE]
    ELSE [m |-> Abort(SaveSession([m EXCEPT !.cur.state = "paused",
                                            !.cur.pauseTime = Some(now)])),
          ret |-> TRUE]

\* a variant that does not stamp pauseTime
PauseSession_NoStamp(m, now) ==
    IF ~HasSession(m) \/ m.cur.state # "running"
    THEN [m |-> m, ret |-> FALSE]
    ELSE [m |-> Abort(SaveSession([m EXCEPT !.cur.state = "paused"])),
          ret |-> TRUE]

\* pauseSession at time now: the manager state afterwards and the value returned
PauseSession(m, now) ==
    IF ~HasSession(m) \/ m.cur.state # "running"
    THEN [m |-> m, ret |-> FALSE]
    ELSE [m |-> Abort(SaveSession([m EXCEPT !.cur.state = "paused",
                                            !.cur.pauseTime = Some(now)])),
          ret |-> TRUE]

\* a variant that resumes whatever the state of the session
ResumeSession_AnyState(m, now) ==
    IF ~HasSession(m)
    THEN [m |-> m, ret |-> FALSE]
    ELSE [m |-> SaveSession([m EXCEPT !.cur.state = "running",
                                      !.cur.resumeTime = Some(now),
                                      !.ac = m.nextTok + 1,
                                      !.nextTok = m.nextTok + 1]),
          ret |-> TRUE]

\* a variant that keeps the AbortController of the paused session
ResumeSession_KeepsToken(m, now) ==
    IF ~HasSession(m) \/ m.cur.state # "paused"
    THEN [m |-> m, ret |-> FALSE]
    ELSE [m |-> SaveSession([m EXCEPT !.cur.state = "running",
                                      !.cur.resumeTime = Some(now)]),
          ret |-> TRUE]

\* resumeSession at time now
ResumeSession(m, now) ==
    IF ~HasSession(m) \/ m.cur.state # "paused"
    THEN [m |-> m, ret |-> FALSE]
    ELSE [m |-> SaveSession([m EXCEPT !.cur.state = "running",
                                      !.cur.resumeTime = Some(now),
                                      !.ac = m.nextTok + 1,
                                      !.nextTok = m.nextTok + 1]),
          ret |-> TRUE]

\* stopSession: the teardown timer is scheduled by the call
StopSession(m) ==
    IF ~HasSession(m) \/ m.cur.state = "idle"
    THEN [m |-> m, ret |-> FALSE]
    ELSE [m |-> [Abort(SaveSession([m EXCEPT !.cur.state = "stopping"]))
                    EXCEPT !.timers = @ + 1],
          ret |-> TRUE]

\* completeSession
CompleteSession(m) ==
    IF ~HasSession(m) THEN m
    ELSE ClearSession([m EXCEPT !.cur.state = "idle"])

\* isActive, canPause, canResume, canStop
IsActive(m) == m.cur.state \in {"running", "paused"}
CanPause(m) == m.cur.state = "running"
CanResume(m) == m.cur.state = "paused"
CanStop(m) == m.cur.state \in {"running", "paused"}

\* getAbortSignal: the current token (0 = null)
GetAbortSignal(m) == m.ac

\* a variant that rounds down
Ceil_RoundsDown(a, b) == a \div b

\* Math.ceil(a / b) for a >= 0, b > 0
Ceil(a, b) == (a + b - 1) \div b
\* Math.round((a / b) * 100) for 0 <= a <= b, 0 < b: halves round up.  The
\* code rounds the double (a / b) * 100; for every b < 40, so for every
\* total within MaxActions, that is the exact rounding computed here (the
\* first pair where the double product falls on the other side of a half is
\* a = 23, b = 40: 57 in the code, 58 exactly).
RoundPct(a, b) == (200 * a + b) \div (2 * b)

\* getProgress at time now (NoSession = null)
GetProgress(m, now) ==
    IF ~HasSession(m) THEN NoSession
    ELSE LET s == m.cur
             processed == s.processedActions
             total == s.totalActions
             remaining == total - processed
             currentTime == IF s.pauseTime # Undefined THEN s.pauseTime[1] ELSE now
             elapsedTime == currentTime - s.startTime
         IN [processed |-> processed,
             total |-> total,
             percentage |-> IF total > 0 THEN RoundPct(processed, total) ELSE 0,
             remaining |-> remaining,
             currentBatch |-> Max(1, Ceil(processed, s.batchSize)),
             totalBatches |-> Max(1, Ceil(total, s.batchSize)),
             state |-> s.state,
             elapsedTime |-> elapsedTime,
             \* Math.round(elapsedTime / processed * remaining), or undefined
             estimatedTimeRemaining |->
                 IF processed > 0 /\ s.state = "running"
                 THEN Some((2 * elapsedTime * remaining + processed)
                            \div (2 * processed))
                 ELSE Undefined]

\* ------------------------------------------------------------ ChromaRunner
\* A run is one call of executeSync or resumeSync:
\*   pc      "env"   awaiting ensurePythonEnvironment (executeSync only)
\*           "exec"  awaiting runPythonScriptWithAbort for `batch`
\*           "delay" awaiting the 100 ms pause between two batches (the
\*                   batch of this turn of the loop is still in scope)
\*           "done"  returned, with `success` the SyncResult's flag
\*           "dead"  the process ended while the call was in flight
\*   signal  the AbortSignal handed to the executor call in flight
Quota == "Quota exceeded"
Failed == "failed"
Messages == {Quota, Failed}

\*   totalProcessed, allErrors   the locals of executeSyncBatches
\* The arguments of executeSync are read when initializeSession is called, so
\* a run awaiting the environment carries none; a run that has returned keeps
\* only its result.
NewRun ==
    [pc |-> "env", batch |-> <<>>, signal |-> 0, totalProcessed |-> 0,
     allErrors |-> <<>>, success |-> FALSE]

\* error.includes('Quota exceeded') || error.includes('quota limit')
IsQuotaError(e) == e = Quota

\* The SyncResult.success computed after the batch loop
SyncSuccess(m, r) ==
    LET totalActions == IF HasSession(m) /\ m.cur.totalActions # 0
                        THEN m.cur.totalActions ELSE 1
        hasOnlyQuotaErrors ==
            \A i \in 1..Len(r.allErrors) : IsQuotaError(r.allErrors[i])
    IN \/ 5 * r.totalProcessed >= 4 * totalActions      \* successRate >= 0.8
       \/ hasOnlyQuotaErrors /\ r.totalProcessed > 0

\* The batch loop has been left: the result is computed, and executeSync /
\* resumeSync completes the session when the result is a success
AfterLoop(m, r) ==
    LET success == SyncSuccess(m, r)
    IN [m |-> IF success THEN CompleteSession(m) ELSE m,
        run |-> [NewRun EXCEPT !.pc = "done", !.success = success]]

\* a variant that hands out the front of the queue without looking at the
\* state of the session or at the token
LoopHead_IgnoresCancel(m, r) ==
    IF ~HasSession(m) \/ m.cur.remainingActions = <<>>
    THEN AfterLoop(m, r)
    ELSE [m |-> m,
          run |-> [r EXCEPT !.pc = "exec",
                            !.batch = SliceTo(m.cur.remainingActions, m.cur.batchSize),
                            !.signal = GetAbortSignal(m)]]

\* The head of the while (true) loop of executeSyncBatches, up to its await
LoopHead(m, r) ==
    LET next == GetNextBatch(m)
        abortSignal == GetAbortSignal(m)
    IN IF next.actions = <<>> \/ abortSignal \in m.aborted
       THEN AfterLoop(next.m, r)
       ELSE [m |-> next.m,
             run |-> [r EXCEPT !.pc = "exec", !.batch = next.actions,
                               !.signal = abortSignal]]

\* A rejected executor promise is handled (and the run returns) before any
\* other event: abort() rejects it inside pauseSession / stopSession
AbortPending ==
    \E i \in 1..Len(runs) : runs[i].pc = "exec" /\ runs[i].signal \in aborted

SetRun(i, res) ==
    /\ SetMgr(res.m)
    /\ runs' = [runs EXCEPT ![i] = res.run]

\* ------------------------------------------------------------ verifySync
\* no verifySync call has been made
NoVerify == [pc |-> "idle"]

\* no chunkDocument call has been made
NoChunker == [pc |-> "idle"]

Paths == 1..MaxPaths
\* What verify_sync.py found: the fields of its {"type": "complete", ...} line
Reports == [verified : BOOLEAN, missing_in_chroma : SUBSET Paths,
            extra_in_chroma : SUBSET Paths, hash_mismatches : SUBSET Paths]

\* A line of the backend's stdout, as the JSON value it parses to
ProgressLine(n) == [kind |-> "object", type |-> "progress", processed |-> n]
CompleteLine(rep) == [kind |-> "object", type |-> "complete", report |-> rep]
\* the stdout of a backend run: its progress lines, then its result line
Stdouts ==
    {<<>>}
    \cup {<<ProgressLine(n)>> : n \in 0..MaxProgress}
    \cup {<<CompleteLine(rep)>> : rep \in Reports}
    \cup {<<ProgressLine(n), CompleteLine(rep)>> :
              n \in 0..MaxProgress, rep \in Reports}

\* the stdout handler of runPythonScriptWithAbort: `processed` after the
\* lines, processed = update.processed || processed on every progress line
RECURSIVE ProcessedAfter(_, _)
ProcessedAfter(processed, lines) ==
    IF lines = <<>> THEN processed
    ELSE LET update == Head(lines)
         IN ProcessedAfter(IF update.type = "progress" /\ update.processed # 0
                           THEN update.processed ELSE processed,
                           Tail(lines))

\* runPythonScript: the SyncResult the promise resolves to when the process
\* closes with exit code `code`; stdout itself is not part of it
RunPythonScript(stdout, code) ==
    [success |-> code = 0, processed |-> ProcessedAfter(0, stdout)]

\* result.processed.toString().split('\n').filter(line => line.trim()): the
\* decimal digits of a number are one line, and JSON.parse of that line is
\* the number
OutputLines(result) == <<[kind |-> "number", value |-> result.processed]>>

\* parsed.type === 'complete' && parsed.verified !== undefined (a result
\* line of the backend always has its verified field; a number has no type)
IsCompleteResult(parsed) ==
    /\ parsed.kind = "object"
    /\ parsed.type = "complete"

\* the value verifySync returns from its catch block
VerifyFallback ==
    [verified |-> FALSE, missing_in_chroma |-> {}, extra_in_chroma |-> {},
     hash_mismatches |-> {}]

\* the search of verifySync through the output lines, last line first: the
\* VerificationResult of the first complete line, or the fallback of the
\* catch block when there is none ('Failed to parse verification result')
RECURSIVE FindResult(_)
FindResult(lines) ==
    IF lines = <<>> THEN VerifyFallback
    ELSE LET parsed == lines[Len(lines)]
         IN IF IsCompleteResult(parsed) THEN parsed.report
            ELSE FindResult(SubSeq(lines, 1, Len(lines) - 1))

\* verifySync when the backend has written stdout and then closed with exit
\* code 0 ("ok"), closed with another code ("failed"), or could not be run
\* ("error": the promise is rejected)
VerifySync(stdout, outcome) ==
    IF outcome = "error" THEN VerifyFallback
    ELSE LET result == RunPythonScript(stdout, IF outcome = "ok" THEN 0 ELSE 1)
         IN IF result.success THEN FindResult(OutputLines(result))
            ELSE VerifyFallback

\* ------------------------------------------------------------ DeltaEngine
MaxFiles == 2       \* files in the vault
MaxContent == 2     \* distinct file contents
MaxCount == 3       \* largest retryCount, and largest maxRetries
MaxList == 2        \* longest list given to markFilesFailed/markFilesSucceeded

\* no DeltaEngine has been constructed
NoDelta == [pc |-> "none"]
\* previousState = null: loadFileState() found no state
NullState == [version |-> 0]
\* no generateDeltaPlan call has returned yet
NoPlan == [kind |-> "none"]

\* A vault-relative path is the sequence of its characters.
DocPaths == {<<"a">>, <<"a", "/", "b">>, <<"a", "_", "b">>}
Contents == 1..MaxContent
\* what vault.getFiles() returns: TFiles with distinct paths, and the content
\* vault.read gives for each (stat.mtime and stat.size are left out)
Vaults ==
    {v \in UNION {[1..n -> [path : DocPaths, content : Contents]] : n \in 0..MaxFiles} :
        \A i, j \in 1..Len(v) : i # j => v[i].path # v[j].path}

\* A glob is the sequence of its tokens: a literal character, "*" (any run of
\* characters other than "/") or "**/" (any run of whole directories).
GlobAll == <<"**/", "*">>
GlobTop == <<"*">>
GlobDir == <<"a", "/", "*">>
IncludeGlobs == {<<GlobAll>>, <<GlobTop>>, <<GlobTop, GlobDir>>}
ExcludeGlobs == {<<>>, <<GlobDir>>, <<GlobTop>>}

\* minimatch(path, glob) of the minimatch package, for these tokens
RECURSIVE Minimatch(_, _)
Minimatch(path, glob) ==
    IF glob = <<>> THEN path = <<>>
    ELSE IF Head(glob) = "*"
    THEN \E k \in 0..Len(path) :
            /\ \A i \in 1..k : path[i] # "/"
            /\ Minimatch(SubSeq(path, k + 1, Len(path)), Tail(glob))
    ELSE IF Head(glob) = "**/"
    THEN \/ Minimatch(path, Tail(glob))
         \/ \E k \in 1..Len(path) :
                /\ path[k] = "/"
                /\ Minimatch(SubSeq(path, k + 1, Len(path)), Tail(glob))
    ELSE /\ path # <<>>
         /\ Head(path) = Head(glob)
         /\ Minimatch(Tail(path), Tail(glob))

MatchesAny(path, globs) == \E i \in 1..Len(globs) : Minimatch(path, globs[i])

\* shouldIncludeFile with the two loops exchanged
ShouldIncludeFile_IncludeFirst(d, path) ==
    IF MatchesAny(path, d.includeGlobs) THEN TRUE
    ELSE FALSE

\* shouldIncludeFile(path): the exclude loop returns false at its first match,
\* then the include loop returns true at its first match
ShouldIncludeFile(d, path) ==
    IF MatchesAny(path, d.excludeGlobs) THEN FALSE
    ELSE IF MatchesAny(path, d.includeGlobs) THEN TRUE
    ELSE FALSE

\* getFileHash: the hex SHA-256 of the content; distinct contents of the
\* model have distinct digests
GetFileHash(file) == <<"sha256", file.content>>

\* getFileMetadata(file)
GetFileMetadata(file) == [path |-> file.path, hash |-> GetFileHash(file)]

\* A Record<string, FileMetadata> is the sequence of its values in property
\* order, which is insertion order for these paths.
HasKey(files, path) == \E i \in 1..Len(files) : files[i].path = path
Lookup(files, path) == files[CHOOSE i \in 1..Len(files) : files[i].path = path]

\* scanVault(): `failing` are the paths whose vault.read is rejected while the
\* file is hashed; the catch drops them
ScanVault(d, failing) ==
    LET includedFiles ==
            SelectSeq(d.vault, LAMBDA file : ShouldIncludeFile(d, file.path))
        hashed == SelectSeq(includedFiles, LAMBDA file : file.path \notin failing)
    IN [i \in 1..Len(hashed) |-> GetFileMetadata(hashed[i])]

\* getDocumentId(path): "/" and "\" become "_", then every character outside
\* [a-zA-Z0-9_.-] becomes "_"
IdChars == {"a", "b", "_", ".", "-"}
GetDocumentId(path) ==
    LET separators == [i \in 1..Len(path) |->
                          IF path[i] \in {"/", "\\"} THEN "_" ELSE path[i]]
    IN [i \in 1..Len(path) |->
           IF separators[i] \in IdChars THEN separators[i] ELSE "_"]

\* previousState?.files || {}
PreviousFiles(previousState) ==
    IF previousState = NullState THEN <<>> ELSE previousState.files

\* the comparison that tells an updated file, on the paths instead of the hashes
HashDiffers_ComparesPaths(currentMeta, previousMeta) ==
    currentMeta.path # previousMeta.path

\* currentMeta.hash !== previousMeta.hash
HashDiffers(currentMeta, previousMeta) == currentMeta.hash # previousMeta.hash

\* the two kinds of DeltaAction (the metadata of an upsert is left out)
UpsertAction(d, path) ==
    [action |-> "upsert", id |-> GetDocumentId(path), path |-> path,
     text |-> Lookup(d.vault, path).content]
DeleteAction(path) == [action |-> "delete", id |-> GetDocumentId(path)]

\* generateDeltaPlan(previousState): `failHash` are the paths whose read is
\* rejected in the scan, `failText` those whose read is rejected when the text
\* of an upsert is fetched; that second read is outside any try
GenerateDeltaPlan(d, previousState, failHash, failText) ==
    LET currentFiles == ScanVault(d, failHash)
        previousFiles == PreviousFiles(previousState)
        isNew(m) == ~HasKey(previousFiles, m.path)
        isUpdated(m) == /\ HasKey(previousFiles, m.path)
                        /\ HashDiffers(m, Lookup(previousFiles, m.path))
        upserted == SelectSeq(currentFiles, LAMBDA m : isNew(m) \/ isUpdated(m))
        deleted == SelectSeq(previousFiles,
                             LAMBDA m : ~HasKey(currentFiles, m.path))
    IN  IF \E i \in 1..Len(upserted) : upserted[i].path \in failText
        THEN [kind |-> "rejected"]
        ELSE [kind |-> "plan",
              actions |->
                  [i \in 1..Len(upserted) |-> UpsertAction(d, upserted[i].path)]
                  \o [i \in 1..Len(deleted) |-> DeleteAction(deleted[i].path)],
              stats |->
                  [added |-> Len(SelectSeq(currentFiles, isNew)),
                   updated |-> Len(SelectSeq(currentFiles, isUpdated)),
                   deleted |-> Len(deleted),
                   unchanged |-> Len(currentFiles) - Len(upserted)]]

\* createCurrentState() that records no hash
CreateCurrentState_NoHash(d, failing) ==
    [files |-> [i \in 1..Len(ScanVault(d, failing)) |->
                   [path |-> ScanVault(d, failing)[i].path, hash |-> <<>>]],
     version |-> 1, partialSync |-> Undefined]

\* createCurrentState(): the scan, version 1 (lastSync is left out)
CreateCurrentState(d, failing) ==
    [files |-> ScanVault(d, failing), version |-> 1, partialSync |-> Undefined]

\* ------------------------------------------------------------ partial sync
\* retryCount is a function from the paths that have an entry
NoCounts == [file \in {} |-> 0]
PathLists == UNION {[1..n -> DocPaths] : n \in 0..MaxList}
Occurrences(list, file) == Cardinality({i \in 1..Len(list) : list[i] = file})

\* markFilesFailed(state, failedFiles): the loop adds 1 to the entry of a path
\* for each of its occurrences in failedFiles (lastFailure is left out)
MarkFilesFailed(state, failedFiles) ==
    LET currentPartialSync ==
            IF state.partialSync = Undefined
            THEN [failedFiles |-> <<>>, retryCount |-> NoCounts]
            ELSE state.partialSync[1]
        old == currentPartialSync.retryCount
    IN [state EXCEPT !.partialSync = Some(
           [failedFiles |->
                ArrayFrom(NewSet(currentPartialSync.failedFiles \o failedFiles)),
            retryCount |->
                [file \in DOMAIN old \cup Range(failedFiles) |->
                    (IF file \in DOMAIN old THEN old[file] ELSE 0)
                    + Occurrences(failedFiles, file)]])]

\* markFilesSucceeded that keeps the retryCount entries
MarkFilesSucceeded_KeepsCounts(state, succeededFiles) ==
    IF state.partialSync = Undefined THEN state
    ELSE LET partialSync == state.partialSync[1]
             remainingFailedFiles ==
                 SelectSeq(partialSync.failedFiles,
                           LAMBDA file : file \notin Range(succeededFiles))
         IN [state EXCEPT !.partialSync =
                IF Len(remainingFailedFiles) > 0
                THEN Some([failedFiles |-> remainingFailedFiles,
                           retryCount |-> partialSync.retryCount])
                ELSE Undefined]

\* markFilesSucceeded(state, succeededFiles)
MarkFilesSucceeded(state, succeededFiles) ==
    IF state.partialSync = Undefined THEN state
    ELSE LET partialSync == state.partialSync[1]
             remainingFailedFiles ==
                 SelectSeq(partialSync.failedFiles,
                           LAMBDA file : file \notin Range(succeededFiles))
             updatedRetryCount ==
                 [file \in DOMAIN partialSync.retryCount \ Range(succeededFiles)
                     |-> partialSync.retryCount[file]]
         IN [state EXCEPT !.partialSync =
                IF Len(remainingFailedFiles) > 0
                THEN Some([failedFiles |-> remainingFailedFiles,
                           retryCount |-> updatedRetryCount])
                ELSE Undefined]

\* retryCount[file] || 0
RetryCountOf(partialSync, file) ==
    IF file \in DOMAIN partialSync.retryCount
    THEN partialSync.retryCount[file] ELSE 0

\* getRetryableFiles with <= for <
GetRetryableFiles_Inclusive(state, maxRetries) ==
    IF state.partialSync = Undefined THEN <<>>
    ELSE SelectSeq(state.partialSync[1].failedFiles,
                   LAMBDA file :
                       RetryCountOf(state.partialSync[1], file) <= maxRetries)

\* getRetryableFiles(state, maxRetries)
GetRetryableFiles(state, maxRetries) ==
    IF state.partialSync = Undefined THEN <<>>
    ELSE SelectSeq(state.partialSync[1].failedFiles,
                   LAMBDA file :
                       RetryCountOf(state.partialSync[1], file) < maxRetries)

\* ------------------------------------------------------------ DocumentChunker
MaxLines == 4       \* lines of a document

\* A string is the sequence of its characters.  The lines of the documents:
\* an empty line, two lines of plain words, a heading, the end of a sentence.
DocLines == {<<>>, <<"x">>, <<"x", "x">>, <<"#", " ", "x">>, <<"x", ".", " ">>}
Whitespace == {" ", "\n"}

\* lines.join('\n') and, more generally, Array.prototype.join(sep)
RECURSIVE Join(_, _)
Join(strings, sep) ==
    IF strings = <<>> THEN <<>>
    ELSE IF Len(strings) = 1 THEN strings[1]
    ELSE strings[1] \o sep \o Join(Tail(strings), sep)

Documents ==
    {Join(lines, <<"\n">>) : lines \in UNION {[1..n -> DocLines] : n \in 1..MaxLines}}
\* ChunkerOptions; the defaults are 1000, 800 and 200
Options == [maxLen : 3..4, targetLen : 2..4, overlap : 0..2]
Mimes == {"markdown", "text"}
\* SourceDocument.id and SourceDocument.updatedAt
DocIds == {"d", "e"}
Stamps == {1, 2}

\* line.trim() is the empty string
IsBlank(s) == \A i \in 1..Len(s) : s[i] \in Whitespace
\* line.trim().match(/^#{1,6}\s+/), for a line without leading whitespace
IsHeading(s) ==
    \E n \in 1..6 :
        /\ Len(s) > n
        /\ \A i \in 1..n : s[i] = "#"
        /\ s[n + 1] \in Whitespace

\* content.split('\n')
RECURSIVE SplitLines(_)
SplitLines(s) ==
    IF \A i \in 1..Len(s) : s[i] # "\n" THEN <<s>>
    ELSE LET k == CHOOSE i \in 1..Len(s) :
                      s[i] = "\n" /\ \A j \in 1..(i - 1) : s[j] # "\n"
         IN <<SubSeq(s, 1, k - 1)>> \o SplitLines(SubSeq(s, k + 1, Len(s)))

\* content.split(/\n\s*\n/): the leftmost match, as long as it can be
RECURSIVE SplitParagraphs(_)
SplitParagraphs(s) ==
    LET closes(i, j) == /\ s[j] = "\n"
                        /\ \A k \in (i + 1)..(j - 1) : s[k] \in Whitespace
        opens == {i \in 1..Len(s) :
                     s[i] = "\n" /\ \E j \in (i + 1)..Len(s) : closes(i, j)}
    IN  IF opens = {} THEN <<s>>
        ELSE LET i == CHOOSE x \in opens : \A y \in opens : x <= y
                 j == CHOOSE x \in (i + 1)..Len(s) :
                          /\ closes(i, x)
                          /\ \A y \in (x + 1)..Len(s) : ~closes(i, y)
             IN <<SubSeq(s, 1, i - 1)>>
                    \o SplitParagraphs(SubSeq(s, j + 1, Len(s)))

\* extractParagraph(lines, 0).lineCount: the lines up to a blank line or a
\* heading
RECURSIVE ParagraphLineCount(_)
ParagraphLineCount(lines) ==
    IF Len(lines) < 2 THEN Len(lines)
    ELSE IF IsBlank(lines[2]) \/ IsHeading(lines[2]) THEN 1
    ELSE 1 + ParagraphLineCount(Tail(lines))

\* tokenizeMarkdown, from line `lines[1]` at offset currentPos, for documents
\* without list items and code fences
RECURSIVE MarkdownTokens(_, _)
MarkdownTokens(lines, currentPos) ==
    IF lines = <<>> THEN <<>>
    ELSE LET line == Head(lines)
         IN IF IsHeading(line) \/ IsBlank(line)
            THEN <<[start |-> currentPos, end |-> currentPos + Len(line),
                    type |-> IF IsHeading(line) THEN "heading" ELSE "blank",
                    content |-> line]>>
                 \o MarkdownTokens(Tail(lines), currentPos + Len(line) + 1)
            ELSE LET n == ParagraphLineCount(lines)
                     content == Join(SubSeq(lines, 1, n), <<"\n">>)
                 IN <<[start |-> currentPos, end |-> currentPos + Len(content),
                       type |-> "paragraph", content |-> content]>>
                    \o MarkdownTokens(SubSeq(lines, n + 1, Len(lines)),
                                      currentPos + Len(content) + 1)

\* tokenizePlainText, from paragraph `paragraphs[1]` at offset currentPos
RECURSIVE PlainTextTokens(_, _)
PlainTextTokens(paragraphs, currentPos) ==
    IF paragraphs = <<>> THEN <<>>
    ELSE LET paragraph == Head(paragraphs)
             rest == PlainTextTokens(Tail(paragraphs),
                                     currentPos + Len(paragraph) + 2)
         IN IF IsBlank(paragraph) THEN rest
            ELSE <<[start |-> currentPos, end |-> currentPos + Len(paragraph),
                    type |-> "paragraph", content |-> paragraph]>> \o rest

\* tokenizeDocument(doc)
TokenizeDocument(doc) ==
    IF doc.mime = "markdown" THEN MarkdownTokens(SplitLines(doc.content), 0)
    ELSE PlainTextTokens(SplitParagraphs(doc.content), 0)

\* buffer.map(token => token.content).join('\n')
ContentOf(buffer) ==
    Join([i \in 1..Len(buffer) |-> buffer[i].content], <<"\n">>)

\* string.slice(-n) for n > 0
SliceLast(s, n) == SubSeq(s, Max(1, Len(s) - n + 1), Len(s))

\* findSentenceBoundary(content): the end of the last match of /[.!?]\s+/g,
\* or content.length when there is none
FindSentenceBoundary(content) ==
    LET ends == {j \in 2..Len(content) :
                    /\ content[j] \in Whitespace
                    /\ (j = Len(content) \/ content[j + 1] \notin Whitespace)
                    /\ \E i \in 1..(j - 1) :
                           /\ content[i] \in {".", "!", "?"}
                           /\ \A k \in (i + 1)..j : content[k] \in Whitespace}
    IN IF ends = {} THEN Len(content)
       ELSE CHOOSE j \in ends : \A k \in ends : k <= j

\* the loop of prepareOverlap, at index i with remainingOverlap left: the
\* overlapTokens it has unshifted when it ends
RECURSIVE OverlapTokens(_, _, _)
OverlapTokens(buffer, i, remainingOverlap) ==
    IF i < 1 \/ remainingOverlap <= 0 THEN <<>>
    ELSE LET token == buffer[i]
         IN IF Len(token.content) <= remainingOverlap
            THEN OverlapTokens(buffer, i - 1,
                               remainingOverlap - Len(token.content))
                     \o <<token>>
            ELSE IF token.type \in {"code_fence", "heading"} THEN <<token>>
            ELSE LET partialContent == SliceLast(token.content, remainingOverlap)
                     sentenceBoundary == FindSentenceBoundary(partialContent)
                 IN IF sentenceBoundary > 0
                    THEN <<[token EXCEPT !.content =
                               SliceLast(token.content, sentenceBoundary)]>>
                    ELSE <<>>

\* prepareOverlap(buffer) for a buffer that is not empty
PrepareOverlap(options, buffer) ==
    LET overlapTokens == OverlapTokens(buffer, Len(buffer), options.overlap)
        overlapContent == ContentOf(overlapTokens)
    IN [overlapContent |-> overlapContent,
        nextStart |-> buffer[Len(buffer)].end - Len(overlapContent),
        nextBuffer |-> overlapTokens,
        nextBufferLen |-> Len(overlapContent)]

\* hashContent(content): the SHA-1 digest, taken as free of collisions
HashContent(content) == <<"sha1", content>>

\* an id made of the parent id and the time stamp of the document
ChunkId_Stamped(doc, hash) == <<doc.id, ":", doc.updatedAt>>

\* `${doc.id}:${hash.slice(0, 12)}`: the parent id and the first 12 digits of
\* the digest, which are determined by the digest
ChunkId(doc, hash) == <<doc.id, ":", <<"slice", 0, 12, hash>>>>

\* finalizeChunk(doc, buffer, start, overlapContent) for a buffer that is not
\* empty (the fields of meta are fields of the chunk; headings is left out)
FinalizeChunk(doc, buffer, start, overlapContent) ==
    LET chunkContent == (IF overlapContent # <<>> THEN overlapContent \o <<"\n">>
                         ELSE <<>>) \o ContentOf(buffer)
        hash == HashContent(chunkContent)
    IN [id |-> ChunkId(doc, hash),
        parentId |-> doc.id,
        content |-> chunkContent,
        start |-> start,
        end |-> buffer[Len(buffer)].end,
        hash |-> hash,
        overlapWithPrev |-> Len(overlapContent) > 0,
        overlapWithNext |-> TRUE,
        mime |-> doc.mime,
        order |-> 0,
        updatedAt |-> doc.updatedAt]

\* the chunk is yielded and the overlap for the next one is prepared;
\* `overlaps` keeps the overlapContent of each of these calls, `buffers` the
\* buffer each chunk was made of and `freshes` the tokens of that buffer that
\* the loop has pushed (`fresh`), which are those that prepareOverlap did not
\* put there
Flush(doc, options, st) ==
    LET result == PrepareOverlap(options, st.buffer)
    IN [buffer |-> result.nextBuffer,
        bufferLen |-> result.nextBufferLen,
        overlapBuffer |-> result.overlapContent,
        chunkStart |-> result.nextStart,
        chunks |-> Append(st.chunks,
                          FinalizeChunk(doc, st.buffer, st.chunkStart,
                                        st.overlapBuffer)),
        overlaps |-> Append(st.overlaps, result.overlapContent),
        buffers |-> Append(st.buffers, st.buffer),
        fresh |-> <<>>,
        freshes |-> Append(st.freshes, st.fresh)]

\* processTokens(doc, tokens): the for loop from its local state st, then the
\* remaining buffer
RECURSIVE ProcessTokens(_, _, _, _)
ProcessTokens(doc, options, tokens, st) ==
    IF tokens = <<>>
    THEN IF Len(st.buffer) > 0
         THEN [st EXCEPT !.chunks =
                  Append(@, FinalizeChunk(doc, st.buffer, st.chunkStart,
                                          st.overlapBuffer)),
                         !.buffers = Append(@, st.buffer),
                         !.freshes = Append(@, st.fresh)]
         ELSE st
    ELSE LET token == Head(tokens)
             exceeds == st.bufferLen + Len(token.content) > options.maxLen
             before == IF exceeds /\ Len(st.buffer) > 0
                       THEN Flush(doc, options, st) ELSE st
             added == [before EXCEPT !.buffer = Append(@, token),
                                     !.bufferLen = @ + Len(token.content),
                                     !.fresh = Append(@, token)]
             after == IF added.bufferLen >= options.targetLen
                      THEN Flush(doc, options, added) ELSE added
         IN ProcessTokens(doc, options, Tail(tokens), after)

\* the locals of processTokens when it starts
ProcessStart ==
    [buffer |-> <<>>, bufferLen |-> 0, overlapBuffer |-> <<>>, chunkStart |-> 0,
     chunks |-> <<>>, overlaps |-> <<>>, buffers |-> <<>>, fresh |-> <<>>,
     freshes |-> <<>>]

\* createSingleChunk(doc)
CreateSingleChunk(doc) ==
    LET hash == HashContent(doc.content)
    IN [id |-> ChunkId(doc, hash),
        parentId |-> doc.id,
        content |-> doc.content,
        start |-> 0,
        end |-> Len(doc.content),
        hash |-> hash,
        overlapWithPrev |-> FALSE,
        overlapWithNext |-> FALSE,
        mime |-> doc.mime,
        order |-> 0,
        updatedAt |-> doc.updatedAt]

\* chunkDocument(doc): the chunks it yields, the overlap prepared after each
\* chunk that was not the last, and the buffer and the pushed tokens of each
\* chunk of processTokens
ChunkDocument(options, doc) ==
    IF Len(doc.content) <= options.maxLen
    THEN [chunks |-> <<CreateSingleChunk(doc)>>, overlaps |-> <<>>,
          buffers |-> <<>>, freshes |-> <<>>]
    ELSE LET end == ProcessTokens(doc, options, TokenizeDocument(doc),
                                  ProcessStart)
         IN [chunks |-> [i \in 1..Len(end.chunks) |->
                            [end.chunks[i] EXCEPT !.order = i - 1]],
             overlaps |-> end.overlaps,
             buffers |-> end.buffers,
             freshes |-> end.freshes]

\* ------------------------------------------------------------ Spec: the API
Init ==
    /\ currentSession = NoSession
    /\ abortController = 0
    /\ aborted = {}
    /\ disk = NoFile
    /\ timers = 0
    /\ nextId = 0
    /\ nextTok = 0
    /\ clock = 1
    /\ batch = <<>>
    /\ runs = <<>>
    /\ verify = NoVerify
    /\ delta = NoDelta
    /\ chunker = NoChunker

\* initializeSession(actions, batchSize)
Initialize ==
    \E actions \in Plans, batchSize \in BatchSizes :
        /\ nextTok < MaxTokens
        /\ SetMgr(InitializeSession(Mgr, actions, batchSize, clock))
        /\ batch' = <<>>
        /\ UNCHANGED <<delta, chunker, verify, clock, runs>>

\* getNextBatch()
NextBatch ==
    /\ batch' = GetNextBatch(Mgr).actions
    /\ SetMgr(GetNextBatch(Mgr).m)
    /\ UNCHANGED <<delta, chunker, verify, clock, runs>>

\* completeBatch(completed), completed a prefix of the batch fetched last
Complete ==
    \E k \in 0..Len(batch) :
        /\ HasSession(Mgr)
        /\ SetMgr(CompleteBatch(Mgr, SubSeq(batch, 1, k), clock))
        /\ batch' = <<>>
        /\ UNCHANGED <<delta, chunker, verify, clock, runs>>

\* addError(message)
Error ==
    \E e \in Messages :
        /\ HasSession(Mgr)
        /\ Len(currentSession.errors) < MaxErrors
        /\ SetMgr(AddError(Mgr, e))
        /\ UNCHANGED <<delta, chunker, verify, clock, batch, runs>>

\* pauseSession(), pauseSync()
Pause ==
    /\ ~AbortPending
    /\ SetMgr(PauseSession(Mgr, clock).m)
    /\ UNCHANGED <<delta, chunker, verify, clock, batch, runs>>

\* resumeSession()
Resume ==
    /\ ResumeSession(Mgr, clock).m.nextTok <= MaxTokens
    /\ SetMgr(ResumeSession(Mgr, clock).m)
    /\ UNCHANGED <<delta, chunker, verify, clock, batch, runs>>

\* stopSession(), stopSync()
Stop ==
    /\ ~AbortPending
    /\ StopSession(Mgr).m.timers <= MaxTimers
    /\ SetMgr(StopSession(Mgr).m)
    /\ UNCHANGED <<delta, chunker, verify, clock, batch, runs>>

\* the callback of setTimeout(() => this.clearSession(), 500) runs
TimerFires ==
    /\ ~AbortPending
    /\ timers > 0
    /\ SetMgr([ClearSession(Mgr) EXCEPT !.timers = @ - 1])
    /\ batch' = <<>>
    /\ UNCHANGED <<delta, chunker, verify, clock, runs>>

\* completeSession()
Finish ==
    /\ HasSession(Mgr)
    /\ SetMgr(CompleteSession(Mgr))
    /\ batch' = <<>>
    /\ UNCHANGED <<delta, chunker, verify, clock, runs>>

\* new SyncStateManager(pluginDataPath) after the plugin was reloaded: the
\* file stays; the memory of the old manager, its timers and the calls in
\* flight are gone
Reload ==
    /\ ~AbortPending
    /\ currentSession' = NoSession
    /\ abortController' = 0
    /\ timers' = 0
    /\ batch' = <<>>
    /\ runs' = [i \in 1..Len(runs) |->
                   IF runs[i].pc = "done" THEN runs[i]
                   ELSE [NewRun EXCEPT !.pc = "dead"]]
    /\ UNCHANGED <<delta, chunker, verify, aborted, disk, nextId, nextTok, clock>>

\* time passes
Tick ==
    /\ clock < MaxClock
    /\ clock' = clock + 1
    /\ UNCHANGED <<delta, chunker, verify, currentSession, abortController, aborted, disk, timers,
                   nextId, nextTok, batch, runs>>

Next ==
    \/ Initialize
    \/ NextBatch
    \/ Complete
    \/ Error
    \/ Pause
    \/ Resume
    \/ Stop
    \/ TimerFires
    \/ Finish
    \/ Reload
    \/ Tick

Spec == Init /\ [][Next]_vars

\* the event loop runs a due timer callback: setTimeout's callback is not
\* postponed forever
SpecFair == Spec /\ WF_vars(TimerFires)

\* ------------------------------------------------------------ SpecDisk
\* sync_session.json is damaged from outside while no manager holds its
\* session (a manager that does rewrites the file on its next operation, and
\* initializeSession does not look at the session in memory): overwritten with
\* text that is no JSON, or one field of the record lost or mistyped
Corrupt ==
    /\ currentSession = NoSession
    /\ disk.kind = "json"
    /\ \/ disk' = [kind |-> "text"]
       \/ \E f \in Faults : disk' = Damaged(f, disk.data)
    /\ UNCHANGED <<delta, chunker, verify, currentSession, abortController, aborted, timers, nextId,
                   nextTok, clock, batch, runs>>

NextDisk ==
    \/ Next
    \/ Corrupt

\* the API on a file that can be damaged between two lives of the plugin
SpecDisk == Init /\ [][NextDisk]_vars

\* ------------------------------------------------------------ SpecRunner
\* executeSync(actions) is called and awaits ensurePythonEnvironment
ExecuteSync ==
    /\ ~AbortPending
    /\ Len(runs) < MaxRuns
    /\ runs' = Append(runs, NewRun)
    /\ UNCHANGED <<delta, chunker, verify, currentSession, abortController, aborted, disk, timers,
                   nextId, nextTok, clock, batch>>

\* ensurePythonEnvironment has settled: initializeSession(actions,
\* settings.batchSize), then the batch loop up to its first await
EnvReady ==
    \E i \in 1..Len(runs), actions \in Plans, batchSize \in BatchSizes :
        /\ ~AbortPending
        /\ runs[i].pc = "env"
        /\ nextTok < MaxTokens
        /\ SetRun(i, LoopHead(InitializeSession(Mgr, actions, batchSize, clock),
                              runs[i]))
        /\ UNCHANGED <<delta, chunker, verify, clock, batch>>

\* resumeSync(): resumeSession, then the batch loop up to its first await; a
\* call that finds nothing to resume returns at once
ResumeSync ==
    /\ ~AbortPending
    /\ Len(runs) < MaxRuns
    /\ ResumeSession(Mgr, clock).m.nextTok <= MaxTokens
    /\ LET res == ResumeSession(Mgr, clock)
           run == [NewRun EXCEPT !.pc = "done"]
       IN IF res.ret
          THEN LET after == LoopHead(res.m, run)
               IN SetMgr(after.m) /\ runs' = Append(runs, after.run)
          ELSE SetMgr(res.m) /\ runs' = Append(runs, run)
    /\ UNCHANGED <<delta, chunker, verify, clock, batch>>

\* the executor process closes: exit code 0 (ok) or not, having reported
\* `processed` actions; completeBatch, then the 100 ms delay
ExecutorCloses ==
    \E i \in 1..Len(runs), ok \in BOOLEAN, e \in Messages :
      \E processed \in 0..Len(runs[i].batch) :
        /\ ~AbortPending
        /\ runs[i].pc = "exec"
        /\ ok => e = Failed
        /\ ~ok => /\ Len(runs[i].allErrors) < MaxErrors
                  /\ HasSession(Mgr) => Len(currentSession.errors) < MaxErrors
        /\ LET done == SliceTo(runs[i].batch, processed)
               m == IF ok THEN CompleteBatch(Mgr, done, clock)
                    ELSE CompleteBatch(AddError(Mgr, e), done, clock)
               r == [runs[i] EXCEPT
                        !.pc = "delay", !.signal = 0,
                        !.totalProcessed = @ + processed,
                        !.allErrors = IF ok THEN @ ELSE Append(@, e)]
           IN SetRun(i, [m |-> m, run |-> r])
        /\ UNCHANGED <<delta, chunker, verify, clock, batch>>

\* the executor process cannot be run (its 'error' event): the promise is
\* rejected with an error that is no cancellation, and the loop is left
ExecutorThrows ==
    \E i \in 1..Len(runs), e \in Messages :
        /\ ~AbortPending
        /\ runs[i].pc = "exec"
        /\ Len(runs[i].allErrors) < MaxErrors
        /\ HasSession(Mgr) => Len(currentSession.errors) < MaxErrors
        /\ SetRun(i, AfterLoop(AddError(Mgr, e),
                               [runs[i] EXCEPT !.allErrors = Append(@, e)]))
        /\ UNCHANGED <<delta, chunker, verify, clock, batch>>

\* the executor call was rejected with AbortError by pause or stop: the loop
\* is left
ExecutorAborted ==
    \E i \in 1..Len(runs) :
        /\ runs[i].pc = "exec"
        /\ runs[i].signal \in aborted
        /\ SetRun(i, AfterLoop(Mgr, runs[i]))
        /\ UNCHANGED <<delta, chunker, verify, clock, batch>>

\* the delay between two batches is over: the next turn of the loop
DelayElapses ==
    \E i \in 1..Len(runs) :
        /\ ~AbortPending
        /\ runs[i].pc = "delay"
        /\ SetRun(i, LoopHead(Mgr, runs[i]))
        /\ UNCHANGED <<delta, chunker, verify, clock, batch>>

NextRunner ==
    \/ ExecuteSync
    \/ EnvReady
    \/ ResumeSync
    \/ Pause
    \/ Stop
    \/ ExecutorCloses
    \/ ExecutorThrows
    \/ ExecutorAborted
    \/ DelayElapses
    \/ TimerFires
    \/ Reload

SpecRunner == Init /\ [][NextRunner]_vars

\* ------------------------------------------------------------ SpecVerify
\* verifySync(fileState) has been called and awaits the backend, which is
\* going to write `stdout`
InitVerify ==
    /\ currentSession = NoSession
    /\ abortController = 0
    /\ aborted = {}
    /\ disk = NoFile
    /\ timers = 0
    /\ nextId = 0
    /\ nextTok = 0
    /\ clock = 1
    /\ batch = <<>>
    /\ runs = <<>>
    /\ verify \in [pc : {"await"}, stdout : Stdouts]
    /\ delta = NoDelta
    /\ chunker = NoChunker

\* the backend process closes, with exit code 0 or not
BackendCloses ==
    \E outcome \in {"ok", "failed"} :
        /\ verify.pc = "await"
        /\ verify' = [pc |-> "done", stdout |-> verify.stdout, outcome |-> outcome,
                      result |-> VerifySync(verify.stdout, outcome)]
        /\ UNCHANGED <<delta, chunker, currentSession, abortController, aborted,
                       disk, timers, nextId, nextTok, clock, batch, runs>>

\* the backend process cannot be run: its 'error' event
BackendErrors ==
    /\ verify.pc = "await"
    /\ verify' = [pc |-> "done", stdout |-> verify.stdout, outcome |-> "error",
                  result |-> VerifySync(verify.stdout, "error")]
    /\ UNCHANGED <<delta, chunker, currentSession, abortController, aborted,
                   disk, timers, nextId, nextTok, clock, batch, runs>>

NextVerify ==
    \/ BackendCloses
    \/ BackendErrors

SpecVerify == InitVerify /\ [][NextVerify]_vars

\* ------------------------------------------------------------ SpecDelta
\* The DeltaEngine as performSync drives it: a plan is generated from the
\* persisted FileState, then the current state is saved or the sync returns
\* without saving; the user edits the vault between two syncs.  The plugin
\* starts with no persisted FileState.
InitDelta ==
    /\ currentSession = NoSession
    /\ abortController = 0
    /\ aborted = {}
    /\ disk = NoFile
    /\ timers = 0
    /\ nextId = 0
    /\ nextTok = 0
    /\ clock = 1
    /\ batch = <<>>
    /\ runs = <<>>
    /\ verify = NoVerify
    /\ chunker = NoChunker
    /\ delta \in [pc : {"ready"}, vault : Vaults, includeGlobs : IncludeGlobs,
                  excludeGlobs : ExcludeGlobs, state : {NullState},
                  plan : {NoPlan}]

DeltaOnly ==
    UNCHANGED <<currentSession, abortController, aborted, disk, timers, nextId,
                nextTok, clock, batch, runs, verify, chunker>>

VaultPaths == {delta.vault[i].path : i \in 1..Len(delta.vault)}

\* the user creates a file
CreateFile ==
    \E path \in DocPaths \ VaultPaths, content \in Contents :
        /\ delta.pc = "ready"
        /\ Len(delta.vault) < MaxFiles
        /\ delta' = [delta EXCEPT !.vault =
                        Append(@, [path |-> path, content |-> content])]
        /\ DeltaOnly

\* the user edits a file
ModifyFile ==
    \E i \in 1..Len(delta.vault), content \in Contents :
        /\ delta.pc = "ready"
        /\ content # delta.vault[i].content
        /\ delta' = [delta EXCEPT !.vault[i].content = content]
        /\ DeltaOnly

\* the user deletes a file
DeleteFile ==
    \E i \in 1..Len(delta.vault) :
        /\ delta.pc = "ready"
        /\ delta' = [delta EXCEPT !.vault =
                        SubSeq(@, 1, i - 1) \o SubSeq(@, i + 1, Len(@))]
        /\ DeltaOnly

\* saveSettings: updateGlobs(includeGlobs, excludeGlobs)
UpdateGlobs ==
    \E inc \in IncludeGlobs, exc \in ExcludeGlobs :
        /\ delta.pc = "ready"
        /\ <<inc, exc>> # <<delta.includeGlobs, delta.excludeGlobs>>
        /\ delta' = [delta EXCEPT !.includeGlobs = inc, !.excludeGlobs = exc]
        /\ DeltaOnly

\* generateDeltaPlan(loadFileState()), for every choice of rejected reads
Diff ==
    \E failHash \in SUBSET VaultPaths, failText \in SUBSET VaultPaths :
        /\ delta.pc = "ready"
        /\ delta' = [delta EXCEPT
                        !.pc = "planned",
                        !.plan = GenerateDeltaPlan(delta, delta.state,
                                                   failHash, failText)]
        /\ DeltaOnly

\* saveFileState(createCurrentState()), for every choice of rejected reads
Snapshot ==
    \E failing \in SUBSET VaultPaths :
        /\ delta.plan.kind # "rejected"
        /\ delta' = [delta EXCEPT !.pc = "ready", !.plan = NoPlan,
                                  !.state = CreateCurrentState(delta, failing)]
        /\ DeltaOnly

\* performSync returns without saving: nothing to sync, the sync failed, or
\* generateDeltaPlan was rejected
Return ==
    /\ delta.pc = "planned"
    /\ delta' = [delta EXCEPT !.pc = "ready", !.plan = NoPlan]
    /\ DeltaOnly

NextDelta ==
    \/ CreateFile
    \/ ModifyFile
    \/ DeleteFile
    \/ UpdateGlobs
    \/ Diff
    \/ Snapshot
    \/ Return

SpecDelta == InitDelta /\ [][NextDelta]_vars

\* ------------------------------------------------------------ SpecRetry
\* The partial-sync bookkeeping of a FileState, from a state without
\* partialSync, for every list of paths.
InitRetry ==
    /\ currentSession = NoSession
    /\ abortController = 0
    /\ aborted = {}
    /\ disk = NoFile
    /\ timers = 0
    /\ nextId = 0
    /\ nextTok = 0
    /\ clock = 1
    /\ batch = <<>>
    /\ runs = <<>>
    /\ verify = NoVerify
    /\ chunker = NoChunker
    /\ delta = [pc |-> "ready", vault |-> <<>>, includeGlobs |-> <<GlobAll>>,
                excludeGlobs |-> <<>>, plan |-> NoPlan,
                state |-> [files |-> <<>>, version |-> 1,
                           partialSync |-> Undefined]]

\* state = markFilesFailed(state, failedFiles)
MarkFailed ==
    \E failedFiles \in PathLists :
        /\ \A file \in Range(failedFiles) :
               IF delta.state.partialSync = Undefined THEN TRUE
               ELSE RetryCountOf(delta.state.partialSync[1], file)
                        + Occurrences(failedFiles, file) <= MaxCount
        /\ delta' = [delta EXCEPT !.state = MarkFilesFailed(@, failedFiles)]
        /\ DeltaOnly

\* state = markFilesSucceeded(state, succeededFiles)
MarkSucceeded ==
    \E succeededFiles \in PathLists :
        /\ delta' = [delta EXCEPT !.state = MarkFilesSucceeded(@, succeededFiles)]
        /\ DeltaOnly

NextRetry ==
    \/ MarkFailed
    \/ MarkSucceeded

SpecRetry == InitRetry /\ [][NextRetry]_vars

\* ------------------------------------------------------------ SpecChunk
\* chunkDocument(doc) is called on a DocumentChunker with `options`
InitChunk ==
    /\ currentSession = NoSession
    /\ abortController = 0
    /\ aborted = {}
    /\ disk = NoFile
    /\ timers = 0
    /\ nextId = 0
    /\ nextTok = 0
    /\ clock = 1
    /\ batch = <<>>
    /\ runs = <<>>
    /\ verify = NoVerify
    /\ delta = NoDelta
    /\ chunker \in [pc : {"call"}, options : Options,
                    doc : [id : {"d"}, mime : Mimes, content : Documents,
                           updatedAt : {1}],
                    first : {Undefined}]

\* the caller has drained the generator
Chunked ==
    /\ chunker.pc = "call"
    /\ chunker' = [pc |-> "done", options |-> chunker.options,
                   doc |-> chunker.doc, first |-> chunker.first,
                   result |-> ChunkDocument(chunker.options, chunker.doc)]
    /\ UNCHANGED <<currentSession, abortController, aborted, disk, timers,
                   nextId, nextTok, clock, batch, runs, verify, delta>>

\* chunkDocument is called a second time on the same DocumentChunker, for a
\* document with the same content and any id and time stamp; `first` keeps
\* the document and the chunks of the first call
ChunkAgain ==
    \E id \in DocIds, updatedAt \in Stamps :
        /\ chunker.pc = "done"
        /\ chunker.first = Undefined
        /\ chunker' = [pc |-> "call", options |-> chunker.options,
                       doc |-> [chunker.doc EXCEPT !.id = id,
                                                   !.updatedAt = updatedAt],
                       first |-> Some([doc |-> chunker.doc,
                                       chunks |-> chunker.result.chunks])]
        /\ UNCHANGED <<currentSession, abortController, aborted, disk, timers,
                       nextId, nextTok, clock, batch, runs, verify, delta>>

NextChunk ==
    \/ Chunked
    \/ ChunkAgain

SpecChunk == InitChunk /\ [][NextChunk]_vars

\* Every executor call eventually returns or is rejected, the 100 ms timer of
\* the delay fires, and a rejected promise is handled
SpecRunnerFair ==
    /\ SpecRunner
    /\ WF_vars(ExecutorCloses \/ ExecutorThrows)
    /\ WF_vars(ExecutorAborted)
    /\ WF_vars(DelayElapses)

\* ============================================================ claims
\* a run leaves the batch loop and returns in this step
Returns(i) ==
    /\ runs[i].pc \in {"exec", "delay"}
    /\ runs'[i].pc = "done"

\* C1: when pause was requested during a run, then once the batch loop has
\* been left the session is still there, in memory and in the file, in state
\* paused and with its queue of unprocessed actions intact, however many
\* batches were completed before; a later resumeSync takes its first batch
\* from the front of that queue.
C1_PausePreservesSession ==
    [][/\ \A i \in 1..Len(runs) :
            (Returns(i) /\ currentSession.state = "paused")
                => /\ currentSession' = currentSession
                   /\ disk'.kind = "json"
                   /\ disk'.data.state = "paused"
                   /\ disk'.data.remainingActions = currentSession.remainingActions
       /\ (/\ currentSession.state = "paused"
           /\ Len(runs') > Len(runs)
           /\ runs'[Len(runs')].pc = "exec")
                => runs'[Len(runs')].batch =
                       SliceTo(currentSession.remainingActions,
                               currentSession.batchSize)
      ]_vars

\* the file holds a session that initializeSession resumes
DurablePaused ==
    /\ disk.kind = "json"
    /\ disk.data.state = "paused"
    /\ Len(disk.data.remainingActions) > 0

\* C2: initializeSession(actions, batchSize) resumes the durable session
\* exactly when the file holds one in state paused with a non-empty queue:
\* then id, startTime, totalActions, processedActions, remainingActions,
\* processedIds and errors are those of the file and the actions argument is
\* not used; in every other case the session is fresh: an id never generated
\* before, processedActions = 0, remainingActions = actions, no processedIds,
\* no errors.  Either way the state is running, batchSize is the argument and
\* the session is written to the file.
C2_InitializeResumesOrCreates ==
    \A actions \in Plans, batchSize \in BatchSizes :
        LET after == InitializeSession(Mgr, actions, batchSize, clock)
            s == after.cur
        IN /\ s.state = "running"
           /\ s.batchSize = batchSize
           /\ after.disk.kind = "json"
           /\ after.disk.data = [s EXCEPT !.processedIds = after.disk.data.processedIds]
           /\ Range(after.disk.data.processedIds) = Range(s.processedIds)
           /\ IF DurablePaused
              THEN /\ s.id = disk.data.id
                   /\ s.startTime = disk.data.startTime
                   /\ s.totalActions = disk.data.totalActions
                   /\ s.processedActions = disk.data.processedActions
                   /\ s.remainingActions = disk.data.remainingActions
                   /\ Range(s.processedIds) = Range(disk.data.processedIds)
                   /\ s.errors = disk.data.errors
                   /\ after.nextId = nextId
              ELSE /\ s.id > nextId
                   /\ disk.kind = "json" => s.id # disk.data.id
                   /\ s.startTime = clock
                   /\ s.totalActions = Len(actions)
                   /\ s.processedActions = 0
                   /\ s.remainingActions = actions
                   /\ s.processedIds = <<>>
                   /\ s.errors = <<>>

\* a session that was paused part-way, with an error on record, is running
\* again under a new batch size while the file has followed
C2_Witness ==
    /\ currentSession.state = "running"
    /\ currentSession.resumeTime # Undefined
    /\ currentSession.processedActions > 0
    /\ currentSession.remainingActions # <<>>
    /\ currentSession.errors # <<>>
    /\ disk.kind = "json"
    /\ disk.data.state = "running"
    /\ nextId = 1

\* ------------------------------------------------------------ C3
SameId ==
    /\ currentSession.state # "none"
    /\ currentSession'.state # "none"
    /\ currentSession'.id = currentSession.id

\* the step leaves the state of the session as it is
StateKept ==
    /\ currentSession'.state = currentSession.state
    /\ currentSession.state = "none" \/ SameId

\* the transitions between observable states that the claim lists, each by
\* its operation; a session that initialize puts in place of another one is a
\* new session (no session -> running), and a reloaded manager observes none
ListedTransition ==
    \/ StateKept
    \/ Reload
    \/ /\ Initialize
       /\ currentSession'.state = "running"
       /\ SameId => currentSession.state = "paused"
    \/ /\ Pause /\ SameId
       /\ currentSession.state = "running"
       /\ currentSession'.state = "paused"
    \/ /\ Resume /\ SameId
       /\ currentSession.state = "paused"
       /\ currentSession'.state = "running"
    \/ /\ Stop /\ SameId
       /\ currentSession.state \in {"running", "paused"}
       /\ currentSession'.state = "stopping"

ObservableState ==
    currentSession'.state \in {"none", "running", "paused", "stopping"}

StoppingIsFinal ==
    (currentSession.state = "stopping"
        /\ currentSession'.state \in {"running", "paused"}) => ~SameId

\* C3 as stated: the state of a session changes only from no session to
\* running (initialize), running to paused (pause), paused to running (resume,
\* resuming initialize), running or paused to stopping (stop), and stopping to
\* cleared; a session that reached stopping never runs or pauses again; no
\* observable state lies outside {running, paused, stopping}.
C3_OnlyListedTransitions ==
    [][/\ ObservableState
       /\ StoppingIsFinal
       /\ \/ ListedTransition
          \/ currentSession.state = "stopping" /\ currentSession'.state = "none"
      ]_vars

\* C3 amended: as C3, but a session is cleared from running and from paused
\* as well as from stopping (by completeSession, or by the teardown timer).
C3_TransitionsWithCompletion ==
    [][/\ ObservableState
       /\ StoppingIsFinal
       /\ \/ ListedTransition
          \/ currentSession'.state = "none"
      ]_vars

\* a running session was completed: it never paused or stopped (no token was
\* ever signaled), and memory and file are cleared
C3_Witness ==
    /\ currentSession = NoSession
    /\ disk = NoFile
    /\ nextId = 1
    /\ aborted = {}
    /\ timers = 0

\* ------------------------------------------------------------ C4
\* k = ceil(a / b)
IsCeil(k, a, b) == k * b >= a /\ (k - 1) * b < a

\* the batches of repeated getNextBatch / completeBatch(batch) cycles from m
RECURSIVE Cycles(_)
Cycles(m) ==
    LET next == GetNextBatch(m)
    IN IF next.actions = <<>> THEN <<>>
       ELSE <<[size |-> Len(next.actions), hasMore |-> next.hasMore]>>
            \o Cycles(CompleteBatch(next.m, next.actions, clock))

\* C4: getNextBatch changes nothing; in state running it returns the first
\* min(batchSize, |remainingActions|) actions of the queue, in order, and
\* hasMore = (|remainingActions| > batchSize); otherwise an empty batch and
\* hasMore = false.  So the cycles over a queue of n actions give
\* ceil(n / batchSize) batches, all full but possibly the last, and hasMore is
\* false on the last one only.
C4_NextBatch ==
    LET next == GetNextBatch(Mgr)
    IN /\ next.m = Mgr
       /\ IF currentSession.state = "running"
          THEN LET q == currentSession.remainingActions
                   size == currentSession.batchSize
                   cycles == Cycles(Mgr)
               IN /\ Len(next.actions) = Min(size, Len(q))
                  /\ \A i \in 1..Len(next.actions) : next.actions[i] = q[i]
                  /\ next.hasMore = (Len(q) > size)
                  /\ IsCeil(Len(cycles), Len(q), size)
                  /\ \A i \in 1..Len(cycles) :
                        IF i < Len(cycles)
                        THEN cycles[i].size = size /\ cycles[i].hasMore
                        ELSE /\ cycles[i].size = Len(q) - (i - 1) * size
                             /\ cycles[i].size \in 1..size
                             /\ ~cycles[i].hasMore
          ELSE next.actions = <<>> /\ ~next.hasMore

\* after a completed full batch the caller holds the short last batch
C4_Witness ==
    /\ currentSession.state = "running"
    /\ currentSession.processedActions = currentSession.batchSize
    /\ batch # <<>>
    /\ Len(batch) < currentSession.batchSize
    /\ batch = currentSession.remainingActions

\* ------------------------------------------------------------ C5
\* C5: completeBatch(completed), completed a prefix of the batch of the
\* preceding getNextBatch, takes exactly |completed| actions off the front of
\* remainingActions and keeps the rest in order, adds |completed| to
\* processedActions and the ids of completed to processedIds, and writes the
\* session to the file.
C5_CompleteBatch ==
    /\ IF HasSession(Mgr)
       THEN batch = SliceTo(currentSession.remainingActions, Len(batch))
       ELSE batch = <<>>
    /\ \A k \in 0..Len(batch) :
        LET completed == SubSeq(batch, 1, k)
            q == currentSession.remainingActions
            after == CompleteBatch(Mgr, completed, clock)
        IN HasSession(Mgr) =>
            /\ Len(after.cur.remainingActions) = Len(q) - k
            /\ \A i \in 1..(Len(q) - k) : after.cur.remainingActions[i] = q[k + i]
            /\ after.cur.processedActions = currentSession.processedActions + k
            /\ Range(after.cur.processedIds) =
                   Range(currentSession.processedIds) \cup Range(completed)
            /\ Cardinality(Range(after.cur.processedIds)) = Len(after.cur.processedIds)
            /\ after.disk.kind = "json"
            /\ after.disk.data.remainingActions = after.cur.remainingActions
            /\ after.disk.data.processedActions = after.cur.processedActions
            /\ Range(after.disk.data.processedIds) = Range(after.cur.processedIds)
            /\ after.disk.data.state = after.cur.state
            /\ after.cur.state = currentSession.state
            /\ after.cur.id = currentSession.id
            /\ after.cur.totalActions = currentSession.totalActions

\* part of a batch was completed, and the next batch has been fetched
C5_Witness ==
    /\ HasSession(Mgr)
    /\ currentSession.processedActions = 1
    /\ currentSession.batchSize = 2
    /\ Len(currentSession.remainingActions) = 2
    /\ Len(batch) = 2
    /\ disk.kind = "json"
    /\ disk.data.processedActions = 1

\* ------------------------------------------------------------ C6
\* C6: pauseSession applies in state running only and resumeSession in state
\* paused only.  A call that applies returns true and sets the state to
\* paused, respectively running; a call that does not apply returns false
\* and leaves the session, the file and the cancellation token as they are.
C6_PauseResumeApplicable ==
    LET p == PauseSession(Mgr, clock)
        r == ResumeSession(Mgr, clock)
    IN /\ IF currentSession.state = "running"
          THEN /\ p.ret
               /\ p.m.cur.state = "paused"
               /\ p.m.cur.id = currentSession.id
               /\ p.m.disk.kind = "json" /\ p.m.disk.data.state = "paused"
          ELSE /\ ~p.ret
               /\ p.m.cur = currentSession
               /\ p.m.disk = disk
               /\ p.m.ac = abortController
               /\ p.m.aborted = aborted
       /\ IF currentSession.state = "paused"
          THEN /\ r.ret
               /\ r.m.cur.state = "running"
               /\ r.m.cur.id = currentSession.id
               /\ r.m.disk.kind = "json" /\ r.m.disk.data.state = "running"
          ELSE /\ ~r.ret
               /\ r.m.cur = currentSession
               /\ r.m.disk = disk
               /\ r.m.ac = abortController
               /\ r.m.aborted = aborted

\* a session was paused (its token is signaled), where a second pause does
\* not apply and resume does
C6_Witness ==
    /\ currentSession.state = "paused"
    /\ abortController \in aborted
    /\ disk.kind = "json"
    /\ disk.data.state = "paused"

\* ------------------------------------------------------------ C7
\* C7: stopSession returns true and starts a teardown (state stopping, one
\* more timer) exactly when the session is running or paused, that is exactly
\* when canStop() is true; with no session or with a session already stopping
\* it returns false, schedules no timer and changes nothing.
C7_StopValidFromRunningOrPaused ==
    LET s == StopSession(Mgr)
    IN /\ s.ret = CanStop(Mgr)
       /\ IF currentSession.state \in {"running", "paused"}
          THEN /\ s.ret
               /\ s.m.cur.state = "stopping"
               /\ s.m.timers = timers + 1
          ELSE /\ ~s.ret
               /\ s.m.timers = timers
               /\ s.m = Mgr

\* ------------------------------------------------------------ C8
\* C8: a stopSession that returns true leaves the session in state stopping,
\* in memory and in the file, with its token signaled and a teardown timer
\* pending; a session in state stopping always has a timer pending; when the
\* timer fires there is no session in memory, no file, and isActive() is
\* false; and a session in state stopping is eventually gone from memory.
C8_StopThenCleared ==
    /\ [](currentSession.state = "stopping" => timers > 0)
    /\ [][/\ (Stop /\ StopSession(Mgr).ret) =>
                /\ currentSession'.state = "stopping"
                /\ disk'.kind = "json" /\ disk'.data.state = "stopping"
                /\ abortController' \in aborted'
                /\ timers' = timers + 1
          /\ TimerFires =>
                /\ currentSession' = NoSession
                /\ abortController' = 0
                /\ disk' = NoFile
                /\ ~IsActive(Mgr)'
                /\ timers' = timers - 1]_vars
    /\ (currentSession.state = "stopping") ~> (currentSession = NoSession)

\* a stop returned true: the session is observable in state stopping, its
\* token signaled, the file in state stopping, the teardown timer pending
C8_Witness ==
    /\ currentSession.state = "stopping"
    /\ abortController \in aborted
    /\ disk.kind = "json"
    /\ disk.data.state = "stopping"
    /\ timers = 1

\* ------------------------------------------------------------ C9
\* q = 100 * num / den rounded to the nearest integer, halves up
IsRound(q, num, den) ==
    /\ 2 * den * q <= 200 * num + den
    /\ 200 * num + den < 2 * den * (q + 1)

\* C9 as stated: for every session getProgress reports the counters of the
\* session, percentage = round(100 * processed / total), currentBatch =
\* ceil(processed / batchSize) and totalBatches = ceil(total / batchSize),
\* also at processed = 0 and for an empty action list.
C9_ProgressExactCeil ==
    HasSession(Mgr) =>
        LET p == GetProgress(Mgr, clock)
            s == currentSession
        IN /\ p.processed = s.processedActions
           /\ p.total = s.totalActions
           /\ p.remaining = s.totalActions - s.processedActions
           /\ IsRound(p.percentage, s.processedActions, s.totalActions)
           /\ IsCeil(p.currentBatch, s.processedActions, s.batchSize)
           /\ IsCeil(p.totalBatches, s.totalActions, s.batchSize)

\* C9: for every session getProgress reports the counters of the session;
\* percentage is round(100 * processed / total) when total > 0 and 0 when
\* total = 0; currentBatch and totalBatches are the ceilings of processed /
\* batchSize and total / batchSize but never less than 1: currentBatch is 1
\* while processed = 0, totalBatches is 1 for an empty action list.
C9_ProgressClamped ==
    HasSession(Mgr) =>
        LET p == GetProgress(Mgr, clock)
            s == currentSession
        IN /\ p.processed = s.processedActions
           /\ p.total = s.totalActions
           /\ p.remaining = s.totalActions - s.processedActions
           /\ p.state = s.state
           /\ IF s.totalActions > 0
              THEN IsRound(p.percentage, s.processedActions, s.totalActions)
              ELSE p.percentage = 0
           /\ IF s.processedActions = 0
              THEN p.currentBatch = 1
              ELSE IsCeil(p.currentBatch, s.processedActions, s.batchSize)
           /\ IF s.totalActions = 0
              THEN p.totalBatches = 1
              ELSE IsCeil(p.totalBatches, s.totalActions, s.batchSize)

\* a session over three actions in batches of two with everything processed:
\* currentBatch = totalBatches = 2, percentage = 100
C9_Witness ==
    /\ HasSession(Mgr)
    /\ currentSession.batchSize = 2
    /\ currentSession.totalActions = 3
    /\ currentSession.processedActions = 3
    /\ GetProgress(Mgr, clock).currentBatch = 2
    /\ GetProgress(Mgr, clock).totalBatches = 2
    /\ GetProgress(Mgr, clock).percentage = 100

\* ------------------------------------------------------------ C10
\* C10: a paused session has a pauseTime, and getProgress called at the
\* current or at any later time reports elapsedTime = pauseTime - startTime
\* and no estimatedTimeRemaining.
C10_ElapsedFrozenWhilePaused ==
    currentSession.state = "paused" =>
        /\ currentSession.pauseTime # Undefined
        /\ \A now \in clock..(MaxClock + 1) :
               LET p == GetProgress(Mgr, now)
               IN /\ p.elapsedTime =
                        currentSession.pauseTime[1] - currentSession.startTime
                  /\ p.estimatedTimeRemaining = Undefined

\* a session with progress was paused and the clock has advanced since
C10_Witness ==
    /\ currentSession.state = "paused"
    /\ currentSession.processedActions > 0
    /\ currentSession.pauseTime # Undefined
    /\ clock > currentSession.pauseTime[1]

\* ------------------------------------------------------------ C11
\* C11: when the file is missing, is no JSON, or holds a damaged record (a
\* field absent or of the wrong type, processedIds that is no list included),
\* loadSession returns null and leaves no file, and initializeSession returns a
\* fresh session: a new id, processedActions = 0, remainingActions = actions.
C11_CorruptRecordDiscarded ==
    disk.kind \in {"absent", "text", "damaged"} =>
        \A actions \in Plans, batchSize \in BatchSizes :
            LET loaded == LoadSession(Mgr)
                after == InitializeSession(Mgr, actions, batchSize, clock)
            IN /\ loaded.session = NoSession
               /\ loaded.m.disk = NoFile
               /\ after.cur.id > nextId
               /\ after.cur.state = "running"
               /\ after.cur.processedActions = 0
               /\ after.cur.remainingActions = actions
               /\ after.disk.kind = "json"

\* ------------------------------------------------------------ C12
\* the file and the session in memory agree: both absent, or loadSession
\* yields the session in memory, processedIds compared as sets
Agree(m) ==
    IF ~HasSession(m) THEN m.disk = NoFile
    ELSE LET loaded == LoadSession(m).session
         IN /\ loaded # NoSession
            /\ [loaded EXCEPT !.processedIds = <<>>] =
                   [m.cur EXCEPT !.processedIds = <<>>]
            /\ Range(loaded.processedIds) = Range(m.cur.processedIds)

C13_TokensFollowState ==
    /\ [](currentSession.state = "running" =>
              abortController # 0 /\ abortController \notin aborted)
    /\ [](currentSession.state \in {"paused", "stopping"} =>
              abortController # 0 /\ abortController \in aborted)
    /\ [][/\ aborted \subseteq aborted'
          /\ (abortController' # abortController /\ abortController' # 0) =>
                /\ abortController' > nextTok
                /\ abortController' \notin aborted'
                /\ currentSession'.state = "running"
          /\ aborted' # aborted =>
                /\ aborted' = aborted \cup {abortController}
                /\ abortController' = abortController
                /\ currentSession'.state \in {"paused", "stopping"}
          /\ (Initialize \/ (Resume /\ ResumeSession(Mgr, clock).ret)) =>
                abortController' # abortController
          /\ ((Pause /\ PauseSession(Mgr, clock).ret)
                \/ (Stop /\ StopSession(Mgr).ret)) =>
                abortController \in aborted']_vars

\* a session running again after a pause: the token of before the pause is
\* signaled, the current one is not
C13_Witness ==
    /\ currentSession.state = "running"
    /\ currentSession.resumeTime # Undefined
    /\ abortController = 2
    /\ aborted = {1}

\* ------------------------------------------------------------ C14
\* the rule of C14 on a session: its processed / total ratio is at least 0.8,
\* or all its errors are quota errors and something was processed
SessionSuccess(s) ==
    \/ 5 * s.processedActions >= 4 * s.totalActions
    \/ /\ \A k \in 1..Len(s.errors) : IsQuotaError(s.errors[k])
       /\ s.processedActions > 0

\* the session as the batch loop leaves it in this step: the one that stays
\* in memory, or, when the run completes it, the one of before the step
ExitSession == IF HasSession(Mgr)' THEN currentSession' ELSE currentSession

\* C14: whenever a run leaves the batch loop of a session, fresh or resumed,
\* at the end of the queue, on cancellation or on a thrown error, its result
\* is a success exactly when the session satisfies the rule.
C14_SuccessBySessionRatio ==
    [][\A i \in 1..Len(runs) :
          (Returns(i) /\ HasSession(Mgr)) =>
              (runs'[i].success <=> SessionSuccess(ExitSession))]_vars

\* ------------------------------------------------------------ C15
\* the runs inside the batch loop, and those awaiting the executor
ActiveLoops == {i \in 1..Len(runs) : runs[i].pc \in {"exec", "delay"}}
InFlight == {i \in 1..Len(runs) : runs[i].pc = "exec"}

\* C15: at most one batch loop is active and at most one executor call is in
\* flight, whatever the interleaving of executeSync, pauseSync, resumeSync and
\* stopSync; so no batch is fetched while the batch before it is still with
\* the executor.
C15_OneLoopOneCall ==
    /\ Cardinality(ActiveLoops) <= 1
    /\ Cardinality(InFlight) <= 1

\* ------------------------------------------------------------ C16
\* the ids of the queued actions are their positions in the plan (so for the
\* plans 1..n, whose queue is always a suffix of the plan)
IdsArePositions(s) ==
    \A k \in 1..Len(s.remainingActions) :
        s.remainingActions[k] = s.totalActions - Len(s.remainingActions) + k

\* C16: when a loop hands its next batch of the same session to the executor,
\* the batch starts at the action right after the last action of the batch it
\* handed before, whatever count the executor reported for that one: no
\* action is handed twice and none is skipped.
C16_BatchesContiguous ==
    [][\A i \in 1..Len(runs) :
          (/\ runs[i].pc = "delay"
           /\ runs'[i].pc = "exec"
           /\ HasSession(Mgr)
           /\ IdsArePositions(currentSession)
           /\ HasSession(Mgr)'
           /\ currentSession'.id = currentSession.id)
              => Head(runs'[i].batch) = runs[i].batch[Len(runs[i].batch)] + 1
      ]_vars

\* ------------------------------------------------------------ C17
\* run i starts an executor call in this step
StartsCall(i) ==
    /\ i \in 1..Len(runs')
    /\ runs'[i].pc = "exec"
    /\ i \in 1..Len(runs) => runs[i].pc # "exec"

\* C17: an executor call is only started for a running session and with the
\* current token, which is not signaled; and while the session is paused or
\* stopping, or gone, a loop that takes its next turn leaves without a call.
\* So after pause or stop no call starts until resume or initialize has
\* installed a new token.
C17_NoCallAfterCancel ==
    /\ [][\A i \in 1..Len(runs') :
            StartsCall(i) =>
                /\ currentSession'.state = "running"
                /\ runs'[i].signal # 0
                /\ runs'[i].signal = abortController'
                /\ runs'[i].signal \notin aborted'
                /\ runs'[i].batch # <<>>]_vars
    /\ [](\A i \in 1..Len(runs) :
            (runs[i].pc = "delay" /\ currentSession.state # "running")
                => LoopHead(Mgr, runs[i]).run.pc = "done")

\* the session was paused with work left while a loop sits in its delay: the
\* token is signaled and the next turn of the loop starts no call
C17_Witness ==
    /\ currentSession.state = "paused"
    /\ currentSession.remainingActions # <<>>
    /\ abortController \in aborted
    /\ \E i \in 1..Len(runs) : runs[i].pc = "delay"

\* ------------------------------------------------------------ C18
\* C18: a run leaves the batch loop only at the end of the queue or on
\* cancellation (the session is not running any more, or the token of the
\* call in flight is signaled): a failed executor call, be it a failure
\* result or a thrown error, does not end it while actions remain.
C18_FailureDoesNotEndRun ==
    [][\A i \in 1..Len(runs) :
          Returns(i) =>
              \/ ~HasSession(Mgr)
              \/ currentSession.state # "running"
              \/ currentSession.remainingActions = <<>>
              \/ runs[i].signal \in aborted]_vars

\* ------------------------------------------------------------ C19
\* C19: every executor call returning in the end, a run that is in the batch
\* loop eventually leaves it (it returns, or the process ends), whatever the
\* executor reports, zero processed actions included.
C19_LoopTerminates ==
    \A i \in 1..MaxRuns :
        (i <= Len(runs) /\ runs[i].pc \in {"exec", "delay"})
            ~> (i <= Len(runs) /\ runs[i].pc \in {"done", "dead"})

\* ------------------------------------------------------------ C20
\* the backend completed and wrote its result line
BackendReported ==
    /\ verify.pc = "done"
    /\ verify.outcome = "ok"
    /\ verify.stdout # <<>>
    /\ verify.stdout[Len(verify.stdout)].type = "complete"

\* C20: verifySync returns verified = true exactly when the backend completed
\* and reported verified; when the backend completed and reported drift,
\* verifySync returns verified = false with the missing and extra paths of
\* the report.
C20_VerifyReportsBackend ==
    verify.pc = "done" =>
        LET rep == verify.stdout[Len(verify.stdout)].report
        IN /\ verify.result.verified <=> (BackendReported /\ rep.verified)
           /\ (BackendReported /\ ~rep.verified) =>
                 /\ verify.result.missing_in_chroma = rep.missing_in_chroma
                 /\ verify.result.extra_in_chroma = rep.extra_in_chroma

\* ------------------------------------------------------------ DeltaEngine
\* the plan of a diff that found nothing to do among n scanned documents
NoChanges(plan, n) ==
    /\ plan.kind = "plan"
    /\ plan.actions = <<>>
    /\ plan.stats = [added |-> 0, updated |-> 0, deleted |-> 0, unchanged |-> n]

\* C21 as stated: if the document collection does not change between
\* snapshot() and diff(that snapshot), the plan has no actions, added =
\* updated = deleted = 0 and unchanged = the number of scanned documents;
\* whichever reads are rejected in either scan.
C21_UnchangedCollectionNoActions ==
    \A atSnapshot \in SUBSET VaultPaths, atDiff \in SUBSET VaultPaths :
        NoChanges(GenerateDeltaPlan(delta, CreateCurrentState(delta, atSnapshot),
                                    atDiff, {}),
                  Len(ScanVault(delta, atDiff)))

\* C21 amended: if neither the document collection nor the set of documents
\* whose read is rejected changes between snapshot() and diff(that snapshot),
\* the plan has no actions, added = updated = deleted = 0 and unchanged = the
\* number of scanned documents.
C21_UnchangedReadableCollectionNoActions ==
    \A failing \in SUBSET VaultPaths, failText \in SUBSET VaultPaths :
        NoChanges(GenerateDeltaPlan(delta, CreateCurrentState(delta, failing),
                                    failing, failText),
                  Len(ScanVault(delta, failing)))

\* a diff of an unchanged, non-empty collection against its snapshot
C21_Witness ==
    /\ delta.pc = "planned"
    /\ delta.state # NullState
    /\ delta.state.files = ScanVault(delta, {})
    /\ delta.state.files # <<>>
    /\ NoChanges(delta.plan, Len(delta.state.files))

PathsOf(files) == {files[i].path : i \in 1..Len(files)}
Position(files, path) == CHOOSE i \in 1..Len(files) : files[i].path = path

\* plan is the classification of the scanned files against the previous ones
Classified(d, plan, scan, prev) ==
    LET added == PathsOf(scan) \ PathsOf(prev)
        updated == {p \in PathsOf(scan) \cap PathsOf(prev) :
                       Lookup(scan, p).hash # Lookup(prev, p).hash}
        unchanged == (PathsOf(scan) \cap PathsOf(prev)) \ updated
        deleted == PathsOf(prev) \ PathsOf(scan)
        actions == plan.actions
        upserts == {i \in DOMAIN actions : actions[i].action = "upsert"}
        deletes == {i \in DOMAIN actions : actions[i].action = "delete"}
        deletedInOrder == SelectSeq(prev, LAMBDA m : m.path \in deleted)
    IN  /\ plan.stats = [added |-> Cardinality(added),
                         updated |-> Cardinality(updated),
                         deleted |-> Cardinality(deleted),
                         unchanged |-> Cardinality(unchanged)]
        /\ Len(actions) = plan.stats.added + plan.stats.updated
                              + plan.stats.deleted
        /\ plan.stats.added + plan.stats.updated + plan.stats.unchanged
               = Len(scan)
        /\ upserts \cup deletes = DOMAIN actions
        \* one upsert for each added or updated path, none for another path
        /\ \A i \in upserts :
               /\ actions[i].path \in added \cup updated
               /\ actions[i].id = GetDocumentId(actions[i].path)
               /\ actions[i].text = Lookup(d.vault, actions[i].path).content
        /\ \A p \in added \cup updated :
               Cardinality({i \in upserts : actions[i].path = p}) = 1
        \* upserts in scan order, then the deletes in previous-state order
        /\ \A i \in upserts, j \in upserts :
               i < j => Position(scan, actions[i].path)
                            < Position(scan, actions[j].path)
        /\ \A i \in deletes : i > Cardinality(upserts)
        /\ Cardinality(deletes) = Len(deletedInOrder)
        /\ \A k \in 1..Len(deletedInOrder) :
               actions[Cardinality(upserts) + k].id
                   = GetDocumentId(deletedInOrder[k].path)

\* C22: diff(previous) classifies every path exactly once: a scanned path
\* absent from previous is an upsert counted added, one whose hash differs is
\* an upsert counted updated, one with the same hash is no action and counted
\* unchanged, a previous path absent from the scan is a delete counted
\* deleted; |actions| = added + updated + deleted, added + updated +
\* unchanged = scanned paths, upserts in scan order then deletes in
\* previous-state order.
C22_DiffClassifiesEveryPath ==
    \A failHash \in SUBSET VaultPaths, failText \in SUBSET VaultPaths :
        LET plan == GenerateDeltaPlan(delta, delta.state, failHash, failText)
        IN plan.kind = "plan" =>
               Classified(delta, plan, ScanVault(delta, failHash),
                          PreviousFiles(delta.state))

\* a plan with an added, an updated and a deleted document
C22_Witness ==
    /\ delta.pc = "planned"
    /\ delta.plan.kind = "plan"
    /\ delta.plan.stats.added >= 1
    /\ delta.plan.stats.updated >= 1
    /\ delta.plan.stats.deleted >= 1
    /\ Len(delta.plan.actions) = 3

Selected(d, path) ==
    /\ MatchesAny(path, d.includeGlobs)
    /\ ~MatchesAny(path, d.excludeGlobs)

\* C23 as stated: scan() contains a document exactly when its path matches at
\* least one include pattern and no exclude pattern; whichever reads are
\* rejected.
C23_ScanFollowsPatterns ==
    \A failing \in SUBSET VaultPaths :
        \A path \in VaultPaths :
            HasKey(ScanVault(delta, failing), path) <=> Selected(delta, path)

\* C23 amended: scan() contains a document exactly when its path matches at
\* least one include pattern and no exclude pattern and its read is not
\* rejected.
C23_ScanFollowsPatternsAndReads ==
    \A failing \in SUBSET VaultPaths :
        \A path \in VaultPaths :
            HasKey(ScanVault(delta, failing), path)
                <=> (Selected(delta, path) /\ path \notin failing)

\* a saved scan of a vault with a file that matches an include and an exclude
\* pattern, and a file that matches an include pattern only
C23_Witness ==
    /\ delta.state # NullState
    /\ delta.state.files = ScanVault(delta, {})
    /\ \E p \in VaultPaths, q \in VaultPaths :
           /\ MatchesAny(p, delta.includeGlobs)
           /\ MatchesAny(p, delta.excludeGlobs)
           /\ ~HasKey(delta.state.files, p)
           /\ Selected(delta, q)
           /\ HasKey(delta.state.files, q)

\* C24: a read or hash failure of a single document is never fatal: for every
\* choice of rejected reads scan(), snapshot() and diff() complete with a
\* result.  Here: no generateDeltaPlan call is rejected.
C24_ReadFailureNeverFatal == delta.plan.kind # "rejected"

\* C25: the id derived from a path is collision-free, so within one plan no
\* two actions (which are for different documents) carry the same id.
C25_IdsCollisionFree ==
    delta.plan.kind = "plan" =>
        \A i \in DOMAIN delta.plan.actions, j \in DOMAIN delta.plan.actions :
            i # j => delta.plan.actions[i].id # delta.plan.actions[j].id

\* ------------------------------------------------------------ partial sync
FailedFilesOf(state) ==
    IF state.partialSync = Undefined THEN <<>>
    ELSE state.partialSync[1].failedFiles
RetryCountsOf(state) ==
    IF state.partialSync = Undefined THEN NoCounts
    ELSE state.partialSync[1].retryCount
CountOf(state, file) ==
    IF file \in DOMAIN RetryCountsOf(state) THEN RetryCountsOf(state)[file]
    ELSE 0
TimesIn(list, x) == Cardinality({i \in 1..Len(list) : list[i] = x})

\* C26: markFailed(state, paths) yields a failedFiles list with each
\* previously failed path and each given path exactly once, and a retryCount
\* exactly 1 higher for each given path (1 for a path not failed before) and
\* unchanged for every other path.
C26_MarkFailedAddsOne ==
    \A paths \in PathLists :
        LET after == MarkFilesFailed(delta.state, paths)
            failed == Range(FailedFilesOf(delta.state)) \cup Range(paths)
        IN  /\ Range(FailedFilesOf(after)) = failed
            /\ \A p \in failed : TimesIn(FailedFilesOf(after), p) = 1
            /\ \A p \in Range(paths) :
                   CountOf(after, p) = CountOf(delta.state, p) + 1
            /\ \A p \in DocPaths \ Range(paths) :
                   /\ CountOf(after, p) = CountOf(delta.state, p)
                   /\ p \in DOMAIN RetryCountsOf(after)
                          <=> p \in DOMAIN RetryCountsOf(delta.state)

\* s is t without the members of `dropped`, in the order of t
Without(s, t, dropped) ==
    /\ Range(s) = Range(t) \ dropped
    /\ \A x \in Range(s) : TimesIn(s, x) = TimesIn(t, x)
    /\ \A i \in DOMAIN s, j \in DOMAIN s :
           i < j => \E k \in DOMAIN t, l \in DOMAIN t :
                        k < l /\ t[k] = s[i] /\ t[l] = s[j]

\* C27: markSucceeded(state, paths) removes each given path from failedFiles
\* and deletes its retryCount entry, keeping the other failed paths with their
\* counts and order; when no failed path is left PartialSync is absent; a
\* state without PartialSync is returned unchanged.
C27_MarkSucceededRemoves ==
    \A paths \in PathLists :
        LET after == MarkFilesSucceeded(delta.state, paths)
            left == Range(FailedFilesOf(delta.state)) \ Range(paths)
        IN  /\ after.files = delta.state.files
            /\ delta.state.partialSync = Undefined => after = delta.state
            /\ left = {} => after.partialSync = Undefined
            /\ left # {} =>
                   /\ after.partialSync # Undefined
                   /\ Without(FailedFilesOf(after), FailedFilesOf(delta.state),
                              Range(paths))
                   /\ DOMAIN RetryCountsOf(after)
                          = DOMAIN RetryCountsOf(delta.state) \ Range(paths)
                   /\ \A p \in DOMAIN RetryCountsOf(after) :
                          CountOf(after, p) = CountOf(delta.state, p)

\* two failed paths with different counts: one can succeed and leave the other
C27_Witness ==
    /\ Len(FailedFilesOf(delta.state)) >= 2
    /\ \E p \in Range(FailedFilesOf(delta.state)),
          q \in Range(FailedFilesOf(delta.state)) :
           /\ CountOf(delta.state, p) # CountOf(delta.state, q)
           /\ FailedFilesOf(MarkFilesSucceeded(delta.state, <<p>>)) = <<q>>

\* C28: after any sequence of markFailed and markSucceeded calls from a state
\* without PartialSync, either PartialSync is absent, or failedFiles is
\* non-empty and duplicate-free, every path in it has a retryCount of at
\* least 1, and retryCount has no entry for a path outside failedFiles.
C28_PartialSyncWellFormed ==
    \/ delta.state.partialSync = Undefined
    \/ /\ FailedFilesOf(delta.state) # <<>>
       /\ \A p \in Range(FailedFilesOf(delta.state)) :
              /\ TimesIn(FailedFilesOf(delta.state), p) = 1
              /\ p \in DOMAIN RetryCountsOf(delta.state)
              /\ CountOf(delta.state, p) >= 1
       /\ DOMAIN RetryCountsOf(delta.state)
              \subseteq Range(FailedFilesOf(delta.state))

\* the state after n calls markFailed(state, [file])
RECURSIVE FailedTimes(_, _, _)
FailedTimes(state, file, n) ==
    IF n = 0 THEN state
    ELSE FailedTimes(MarkFilesFailed(state, <<file>>), file, n - 1)

\* r is, in failedFiles order, the failed paths with a count below maxRetries
BelowBudget(r, state, maxRetries) ==
    LET failed == FailedFilesOf(state)
        keep == {i \in DOMAIN failed : CountOf(state, failed[i]) < maxRetries}
    IN  /\ Len(r) = Cardinality(keep)
        /\ \A i \in keep : r[Cardinality({j \in keep : j <= i})] = failed[i]

\* the path is returned once it has succeeded and failed one more time
ReturnedAgain(state, file, maxRetries) ==
    file \in Range(GetRetryableFiles(
        MarkFilesFailed(MarkFilesSucceeded(state, <<file>>), <<file>>),
        maxRetries))

\* C29 as stated: retryableFiles(state, maxRetries) returns, in failedFiles
\* order, exactly the failed paths whose retryCount is below maxRetries; a
\* path marked failed maxRetries times is no longer returned, and it is
\* returned again after markSucceeded followed by one new markFailed.
C29_RetryBudget ==
    \A maxRetries \in 0..MaxCount, file \in DocPaths :
        LET exhausted == FailedTimes(delta.state, file, maxRetries)
        IN  /\ BelowBudget(GetRetryableFiles(delta.state, maxRetries),
                           delta.state, maxRetries)
            /\ file \notin Range(GetRetryableFiles(exhausted, maxRetries))
            /\ ReturnedAgain(exhausted, file, maxRetries)

\* C29 amended: as C29, but the path is returned again after markSucceeded
\* followed by one new markFailed exactly when maxRetries is at least 2.
C29_RetryBudgetAboveOne ==
    \A maxRetries \in 0..MaxCount, file \in DocPaths :
        LET exhausted == FailedTimes(delta.state, file, maxRetries)
        IN  /\ BelowBudget(GetRetryableFiles(delta.state, maxRetries),
                           delta.state, maxRetries)
            /\ file \notin Range(GetRetryableFiles(exhausted, maxRetries))
            /\ ReturnedAgain(exhausted, file, maxRetries) <=> maxRetries >= 2

\* a failed path out of budget after a failed path within budget
C29_Witness ==
    /\ Len(FailedFilesOf(delta.state)) >= 2
    /\ CountOf(delta.state, FailedFilesOf(delta.state)[1]) = MaxCount
    /\ GetRetryableFiles(delta.state, MaxCount)
           = SubSeq(FailedFilesOf(delta.state), 2,
                    Len(FailedFilesOf(delta.state)))

\* ------------------------------------------------------------ DocumentChunker
StartsWith(s, prefix) ==
    Len(prefix) <= Len(s) /\ SubSeq(s, 1, Len(prefix)) = prefix

\* C30: content of length at most maxLen yields exactly one chunk that spans
\* the whole document with overlapWithPrev and overlapWithNext both false;
\* content of length maxLen + 1 or more yields at least two chunks, and the
\* content of each chunk after the first begins with the overlap text
\* computed when the previous chunk was flushed.
C30_OneChunkUpToMaxLen ==
    chunker.pc = "done" =>
        LET chunks == chunker.result.chunks
            overlaps == chunker.result.overlaps
        IN IF Len(chunker.doc.content) <= chunker.options.maxLen
           THEN /\ Len(chunks) = 1
                /\ chunks[1].content = chunker.doc.content
                /\ chunks[1].start = 0
                /\ chunks[1].end = Len(chunker.doc.content)
                /\ ~chunks[1].overlapWithPrev
                /\ ~chunks[1].overlapWithNext
           ELSE /\ Len(chunks) >= 2
                /\ \A i \in 2..Len(chunks) :
                       StartsWith(chunks[i].content, overlaps[i - 1])

\* ------------------------------------------------------------ C34
\* C34: the teardown scheduled by stopSession clears only the session that
\* was stopped: when the timer callback runs while a session is in state
\* running (a session that initializeSession created after the stop), that
\* session stays in memory and in the file.
C34_StaleTimerSparesNewSession ==
    [][(TimerFires /\ currentSession.state = "running")
          => (currentSession' = currentSession /\ disk' = disk)]_vars

\* ------------------------------------------------------------ C35
\* C35: once a paused session is running again (resumeSession, or an
\* initializeSession that resumes it), getProgress called at two different
\* instants reports increasing elapsedTime values, and the
\* estimatedTimeRemaining of each call is computed from its elapsedTime.
C35_ElapsedAdvancesAfterResume ==
    (currentSession.state = "running" /\ currentSession.resumeTime # Undefined) =>
        \A t1, t2 \in clock..(MaxClock + 1) :
            LET p1 == GetProgress(Mgr, t1)
                p2 == GetProgress(Mgr, t2)
            IN /\ t1 < t2 => p1.elapsedTime < p2.elapsedTime
               /\ p1.processed > 0 =>
                      p1.estimatedTimeRemaining =
                          Some((2 * p1.elapsedTime * p1.remaining + p1.processed)
                                  \div (2 * p1.processed))

\* ------------------------------------------------------------ C36
\* C36: in every state of a session driven by executeSync, pauseSync,
\* resumeSync and stopSync, processedActions + |remainingActions| =
\* totalActions and 0 <= processedActions <= totalActions.
C36_RunnerKeepsCounts ==
    HasSession(Mgr) =>
        /\ currentSession.processedActions + Len(currentSession.remainingActions)
               = currentSession.totalActions
        /\ 0 <= currentSession.processedActions
        /\ currentSession.processedActions <= currentSession.totalActions

\* ------------------------------------------------------------ C39
\* C39: when every executeSync call has returned and no pause or stop was
\* ever requested (no token was aborted), no session is left in state
\* running. resumeSync returns through the same code (AfterLoop).
C39_NoRunningSessionLeft ==
    (/\ aborted = {}
     /\ Len(runs) > 0
     /\ \A i \in 1..Len(runs) : runs[i].pc = "done")
        => currentSession.state # "running"

\* ------------------------------------------------------------ C40
\* C40: a step in which a call of executeSync or resumeSync returns with
\* success and the session is cleared (completeSession) starts from a
\* session whose remainingActions queue is empty.
C40_CompletedOnlyWhenQueueEmpty ==
    [][(/\ HasSession(Mgr)
        /\ currentSession' = NoSession
        /\ \E i \in 1..Len(runs') :
               /\ runs'[i].pc = "done"
               /\ runs'[i].success
               /\ i <= Len(runs) => runs[i].pc # "done")
          => currentSession.remainingActions = <<>>]_vars

\* ------------------------------------------------------------ C37
\* C37: the plan of generateDeltaPlan(previousState) holds a delete action
\* only for a path of the previous state that is no longer in the vault or no
\* longer selected by the patterns: there are no more delete actions than
\* such paths and each carries the id of one of them, whichever reads are
\* rejected during the scan.
C37_DeleteOnlyGoneOrFiltered ==
    (delta.pc = "planned" /\ delta.plan.kind = "plan") =>
        LET gone == {p \in PathsOf(PreviousFiles(delta.state)) :
                        p \notin VaultPaths \/ ~Selected(delta, p)}
            deletes == SelectSeq(delta.plan.actions,
                                 LAMBDA a : a.action = "delete")
        IN /\ Len(deletes) <= Cardinality(gone)
           /\ \A i \in 1..Len(deletes) :
                  \E p \in gone : deletes[i].id = GetDocumentId(p)

C32_MaxLenIsCeiling ==
    (chunker.pc = "done" /\ Len(chunker.result.chunks) >= 2) =>
        \A i \in 1..Len(chunker.result.chunks) :
            LET own == chunker.result.freshes[i]
                atomic == /\ Len(own) = 1
                          /\ own[1].type \in {"heading", "code_fence"}
                          /\ Len(own[1].content) > chunker.options.maxLen
            IN atomic \/ Len(chunker.result.chunks[i].content)
                             <= chunker.options.maxLen

\* ------------------------------------------------------------ C33
\* the walk of prepareOverlap from the end of the buffer: the index of the
\* token that is larger than the budget left (0 when there is none) and that
\* budget
RECURSIVE PartialToken(_, _, _)
PartialToken(buffer, i, remaining) ==
    IF i < 1 \/ remaining <= 0 THEN [index |-> 0, remaining |-> remaining]
    ELSE IF Len(buffer[i].content) <= remaining
    THEN PartialToken(buffer, i - 1, remaining - Len(buffer[i].content))
    ELSE [index |-> i, remaining |-> remaining]

\* the positions of s at which a sentence boundary ends: a terminator and the
\* whitespace that follows it
BoundaryEnds(s) ==
    {j \in 2..Len(s) :
        /\ s[j] \in Whitespace
        /\ (j = Len(s) \/ s[j + 1] \notin Whitespace)
        /\ \E i \in 1..(j - 1) :
               /\ s[i] \in {".", "!", "?"}
               /\ \A k \in (i + 1)..j : s[k] \in Whitespace}

\* C33: when prepareOverlap meets a paragraph or list item that is larger
\* than the overlap budget left, what it carries of that token is the text
\* after a sentence boundary (a terminator followed by whitespace) found in
\* the last `budget` characters of the token, and nothing when these hold no
\* boundary.
C33_PartialOverlapFromSentenceBoundary ==
    chunker.pc = "done" =>
        \A n \in 1..Len(chunker.result.overlaps) :
            LET buffer == chunker.result.buffers[n]
                partial == PartialToken(buffer, Len(buffer),
                                        chunker.options.overlap)
                overlapTokens == PrepareOverlap(chunker.options, buffer).nextBuffer
                whole == Len(buffer) - partial.index
                carried == IF Len(overlapTokens) > whole
                           THEN overlapTokens[1].content ELSE <<>>
                suffix == SliceLast(buffer[partial.index].content,
                                    partial.remaining)
            IN (/\ partial.index > 0
                /\ buffer[partial.index].type \in {"paragraph", "list_item"})
                   => IF BoundaryEnds(suffix) = {}
                      THEN carried = <<>>
                      ELSE \E j \in BoundaryEnds(suffix) :
                               carried = SubSeq(suffix, j + 1, Len(suffix))

\* ------------------------------------------------------------ C38
\* C38: the content of every chunk after the first is the overlap text
\* prepared when the chunk before it was flushed, followed by the tokens that
\* come after the last token of that chunk (the carried tokens are not
\* repeated in the body), and the chunk holds at least one such token.
C38_OverlapAppearsOnce ==
    chunker.pc = "done" =>
        \A i \in 2..Len(chunker.result.chunks) :
            LET overlapContent == chunker.result.overlaps[i - 1]
                own == chunker.result.freshes[i]
            IN /\ own # <<>>
               /\ chunker.result.chunks[i].content
                      = (IF overlapContent # <<>>
                         THEN overlapContent \o <<"\n">> ELSE <<>>)
                            \o ContentOf(own)

====
